---- MODULE Spec2Model ----
(***************************************************************************)
(* Model of Haikw's object manipulation facade                             *)
(* (src/manipulation.py, ObjectManipulationFacade), its tracking table     *)
(* (src/yaml/structures.py, DictionarySet), the position factory           *)
(* (src/state.py) and the manipulation strategy the repository ships       *)
(* (src/test/dummy.py, DummyManipulationStrategy, a subclass of the        *)
(* abstract strategy of src/specialization.py).                            *)
(*                                                                         *)
(* Every facade method is one action that runs the whole method body,      *)
(* statement by statement.  A Python exception ends the method at the      *)
(* statement that raises it; what was assigned before stays assigned.      *)
(* The code is modelled as shipped.  A name a module uses without binding  *)
(* it (VirtualObject and VirtualObjectPosition in manipulation.py,         *)
(* VirtualObjectPosition in builders.py, experiment in configurable.py)    *)
(* raises NameError where it is evaluated.  Two defects stop the shipped   *)
(* code before any object exists: manipulation.py binds no name            *)
(* structures, so the facade's constructor raises NameError, and           *)
(* src/state.py declares VirtualObjectPosition.__init__ without self and   *)
(* names VirtualObjectPositionFactory in the defaults of its own methods,  *)
(* so no position can be constructed and the factory class is never        *)
(* created.  The variable environment holds which of the two a client has  *)
(* repaired; it is empty for the code as shipped.                          *)
(* Floats are scaled to integers (0.1 is 1).  A VirtualObjectSize is an    *)
(* object its holders share: a change made through its __setitem__ or      *)
(* __delitem__ shows in the size resolver, in the builder and in every     *)
(* object built with it.                                                   *)
(*                                                                         *)
(* The object builders (src/builders.py), the color, size and prototype    *)
(* resolvers (src/virtualobject.py), the position factory, the setup       *)
(* manager (src/experiment.py, src/configurable.py) and the external       *)
(* object builder (src/manipulation.py) have their own specifications      *)
(* below (SpecBuilder, SpecColor, SpecPosition, SpecSetup, SpecExternal).  *)
(* Spec and SpecPosition start in either environment.  As shipped no       *)
(* module that imports state loads (virtualobject, builders, configurable, *)
(* manipulation), so the other specifications start in the patched         *)
(* environment, which supplies the classes, the positions and the position *)
(* factory they drive.                                                     *)
(***************************************************************************)
EXTENDS Integers, Sequences, FiniteSets, TLC

\* Number of facade calls a client makes in one run.
MaxOps == 3

\* Names a client gives to objects; "offset" is also a prefabricated position.
ObjectNames == {"offset", "cube1"}

\* The components <<x, y, z, roll, pitch, yaw>> a client gives to positions.
Origin == <<0, 0, 0, 0, 0, 0>>
Offset == <<1, 2, 3, 1, 2, 3>>

\* The factory's name -> position table (test/config: "origin", "offset").
prefabricated_positions == [n \in {"origin", "offset"} |->
                              IF n = "origin" THEN Origin ELSE Offset]

\* Strings a client may pass where a name is expected.
Strings == ObjectNames \cup DOMAIN prefabricated_positions \cup {"nowhere"}

\* VirtualObject(name, position, descriptor, color, size): immutable snapshot.
VirtualObject(name, position, descriptor, color, size) ==
  [name |-> name, position |-> position, descriptor |-> descriptor,
   color |-> color, size |-> size]

NoObj == VirtualObject("", <<>>, "", "", "")

\* The objects a client holds, one per name (as the tests' small_red_cube and
\* large_blue_sphere): "cube1" was built at the origin, the others at the offset.
ClientObject(n) ==
  IF n = "cube1" THEN VirtualObject(n, Origin, "cube", "red", "small")
                 ELSE VirtualObject(n, Offset, "sphere", "blue", "large")
Objects == {ClientObject(n) : n \in ObjectNames}

\* Python values that reach the facade, tagged with their type.
None    == [kind |-> "None", str |-> "", pos |-> <<>>, obj |-> NoObj]
StrT(s) == [kind |-> "str", str |-> s, pos |-> <<>>, obj |-> NoObj]
PosT(p) == [kind |-> "VirtualObjectPosition", str |-> "", pos |-> p, obj |-> NoObj]
ObjT(o) == [kind |-> "VirtualObject", str |-> "", pos |-> <<>>, obj |-> o]

\* Affectors: the strategy's default part, another part, and "no affector".
default_affector == "test_affector"
NoAffector == "None"
Affectors == {NoAffector, default_affector, "other_arm"}

\* Operations of the manipulation strategy interface.
StrategyOps == {"get_default_affector", "refresh", "grab", "face", "update",
                "release", "delete"}
ManipulationOps == {"grab", "face", "release"}

VARIABLES
  virtual_objects,  \* facade: name -> VirtualObject tracking table
  strategy,         \* backend: [virtual_objects, grabbed, facing]
  inherited,        \* the operation the strategy class leaves to the abstract base
  calls,            \* backend calls made by the last facade operation
  last,             \* the last facade operation, its arguments and outcome
  ops,              \* number of calls made so far that a bound counts
  external_facing_object_builder,  \* facade: the memoized builder, or None
  builder,          \* the builders: pending descriptor, color, size; descriptor_set flags
  created,          \* objects given to create_object by the last builder call
  blast,            \* the last builder call, its arguments and outcome
  colors,           \* color resolver: name -> VirtualObjectColor
  fcall,            \* the last resolver / factory call, its arguments and outcome
  setup_manager,    \* the setup manager: the store it was given and its setups
  scall,            \* the last setup manager / factory call and its outcome
  size_mapping,     \* size resolver: name -> VirtualObjectSize
  prototype_mapping,  \* prototype resolver: name -> flyweight
  environment       \* the load-time defects of the shipped modules that are repaired

vars == <<virtual_objects, strategy, inherited, calls, last, ops,
          external_facing_object_builder, builder, created, blast, colors, fcall,
          setup_manager, scall,
                 size_mapping, prototype_mapping, environment>>


(***************************************************************************)
(* The running state of one facade method: the facade's table, the         *)
(* strategy's fields, the backend calls made so far, the exception raised  *)
(* (err) and the value returned (ret, retList, aff).                       *)
(***************************************************************************)
Start ==
  [table |-> virtual_objects,
   vo |-> strategy.virtual_objects,
   grabbed |-> strategy.grabbed,
   facing |-> strategy.facing,
   calls |-> <<>>, err |-> "none", ret |-> None, retList |-> <<>>,
   aff |-> NoAffector, ext |-> external_facing_object_builder]

Raise(st, e) == [st EXCEPT !.err = e]

\* A name the module's namespace does not bind is evaluated.
Unbound(st, name) == Raise(st, "NameError")

(***************************************************************************)
(* The environments.  Shipped is the code as it is.  In Patched the client *)
(* has bound structures in manipulation.py ("structures") and has given    *)
(* the methods of src/state.py their self and the class's DEFAULT as       *)
(* defaults ("state"); everything else stays as shipped.  The objects a    *)
(* client holds (positions, VirtualObjects, a position factory, the        *)
(* strategy of src/test/dummy.py over the abstract strategy) exist in      *)
(* Patched only.                                                           *)
(***************************************************************************)
Shipped == {}
Patched == {"structures", "state"}
Environments == {Shipped, Patched}

(***************************************************************************)
(* VirtualObjectPosition (src/state.py)                                    *)
(***************************************************************************)
\* VirtualObjectPosition(x, y, z, roll, pitch, yaw): Python passes the new
\* instance and the components given, and __init__ declares, as shipped, the
\* six components and no self; another number of arguments than the declared
\* one is a TypeError before the body runs.  As shipped a call that passes
\* the arity test binds the instance to x, and the body's first statement,
\* self.__x = x, names self, which nothing binds.
VirtualObjectPosition_init(st, components) ==
  LET declared == IF "state" \in environment THEN 7 ELSE 6
  IN IF 1 + Len(components) # declared
       THEN Raise(st, "TypeError")
     ELSE IF "state" \notin environment
       THEN Unbound(st, "self")
     ELSE [st EXCEPT !.ret = PosT(components)]

\* The positions a client can hold: those the constructor can build.
Positions ==
  {p \in {Origin, Offset} :
     VirtualObjectPosition_init([err |-> "none", ret |-> None], p).err = "none"}

\* A call that entered a strategy method: its name, affector and outcome.
Called(st, op, affector, e) ==
  [st EXCEPT !.calls = Append(@, [op |-> op, affector |-> affector, err |-> e])]

\* f with key k bound to v / with key k removed.
Put(f, k, v) == [x \in DOMAIN f \cup {k} |-> IF x = k THEN v ELSE f[x]]
Drop(f, k) == [x \in DOMAIN f \ {k} |-> f[x]]

(***************************************************************************)
(* DictionarySet (src/yaml/structures.py)                                  *)
(***************************************************************************)
\* __setitem__: refuses a key that is present.
DictionarySet_setitem(st, key, value) ==
  IF key \in DOMAIN st.table
    THEN Raise(st, "AttributeError")
    ELSE [st EXCEPT !.table = Put(@, key, value)]

\* __delitem__: del of the inner dict, KeyError when absent.
DictionarySet_delitem(st, key) ==
  IF key \notin DOMAIN st.table
    THEN Raise(st, "KeyError")
    ELSE [st EXCEPT !.table = Drop(@, key)]

(***************************************************************************)
(* VirtualObjectPositionFactory (src/state.py)                             *)
(***************************************************************************)
\* DEFAULT = None marks a component that was not supplied; a supplied
\* component v is <<v>>.
DEFAULT == <<>>
NoOverrides == [i \in 1..6 |-> DEFAULT]

\* The class statement of VirtualObjectPositionFactory: the defaults of
\* create_position, create_prefabricated, clone and create_position_relative
\* name VirtualObjectPositionFactory while the class body runs, which raises
\* NameError and leaves no class; no method of it can then be called.
VirtualObjectPositionFactory_class(st) ==
  IF "state" \in environment THEN st
  ELSE Unbound(st, "VirtualObjectPositionFactory")

\* clone(position, x, ..., yaw): every supplied component replaces the
\* position's component, and a new position is constructed from the six.
clone(st, position, over) ==
  LET s0 == VirtualObjectPositionFactory_class(st)
  IN IF s0.err # "none" THEN s0
     ELSE VirtualObjectPosition_init(
            s0, [i \in 1..6 |-> IF over[i] = DEFAULT THEN position[i]
                                                     ELSE over[i][1]])

\* create_prefabricated(name, x, ..., yaw): st.ret is the new position, or
\* ValueError when name is not a prefabricated position.
create_prefabricated(st, name, over) ==
  LET s0 == VirtualObjectPositionFactory_class(st)
  IN IF s0.err # "none" THEN s0
     ELSE IF name \notin DOMAIN prefabricated_positions
       THEN Raise(s0, "ValueError")
       ELSE clone(s0, prefabricated_positions[name], over)

(***************************************************************************)
(* The manipulation strategy (src/test/dummy.py); the operation named by   *)
(* inherited is the abstract base's, which raises NotImplementedError.     *)
(***************************************************************************)
strategy_get_default_affector(st) ==
  IF inherited = "get_default_affector"
    THEN Raise(Called(st, "get_default_affector", NoAffector, "NotImplementedError"),
               "NotImplementedError")
    ELSE [Called(st, "get_default_affector", NoAffector, "none")
            EXCEPT !.aff = default_affector]

strategy_grab(st, target, affector) ==
  IF inherited = "grab"
    THEN Raise(Called(st, "grab", affector, "NotImplementedError"), "NotImplementedError")
  ELSE IF affector # default_affector
    THEN Raise(Called(st, "grab", affector, "ValueError"), "ValueError")
  ELSE [Called(st, "grab", affector, "none") EXCEPT !.grabbed = ObjT(target)]

strategy_face(st, position, affector) ==
  IF inherited = "face"
    THEN Raise(Called(st, "face", affector, "NotImplementedError"), "NotImplementedError")
  ELSE IF affector # default_affector
    THEN Raise(Called(st, "face", affector, "ValueError"), "ValueError")
  ELSE [Called(st, "face", affector, "none") EXCEPT !.facing = position]

strategy_release(st, affector) ==
  IF inherited = "release"
    THEN Raise(Called(st, "release", affector, "NotImplementedError"), "NotImplementedError")
  ELSE IF affector # default_affector
    THEN Raise(Called(st, "release", affector, "ValueError"), "ValueError")
  ELSE [Called(st, "release", affector, "none") EXCEPT !.grabbed = None]

\* update(self, target, position): args are the positional arguments of the
\* call; any other number of them is a TypeError before the body runs.
\* The body stores a new VirtualObject and returns nothing (None).
strategy_update(st, args) ==
  IF Len(args) # 2
    THEN Raise(st, "TypeError")
  ELSE IF inherited = "update"
    THEN Raise(Called(st, "update", NoAffector, "NotImplementedError"), "NotImplementedError")
  ELSE LET target == args[1].obj
           position == args[2].pos
       IN [Called(st, "update", NoAffector, "none") EXCEPT
             !.vo = Put(@, target.name,
                        VirtualObject(target.name, position, target.descriptor,
                                      target.color, target.size)),
             !.ret = None]

strategy_delete(st, target) ==
  IF inherited = "delete"
    THEN Raise(Called(st, "delete", NoAffector, "NotImplementedError"), "NotImplementedError")
  ELSE IF target.name \notin DOMAIN st.vo
    THEN Raise(Called(st, "delete", NoAffector, "KeyError"), "KeyError")
  ELSE [Called(st, "delete", NoAffector, "none") EXCEPT !.vo = Drop(@, target.name)]

(***************************************************************************)
(* ObjectManipulationFacade (src/manipulation.py)                          *)
(***************************************************************************)
\* refresh(target): calls the strategy's update with the target alone, then
\* replaces the table entry by what came back.
refresh(st, target) ==
  LET name == target.name
      s1 == strategy_update(st, <<ObjT(target)>>)
  IN IF s1.err # "none" THEN s1
     ELSE LET new == s1.ret
              s2 == DictionarySet_delitem(s1, name)
          IN IF s2.err # "none" THEN s2
             ELSE LET s3 == DictionarySet_setitem(s2, name, new.obj)
                  IN IF s3.err # "none" THEN s3 ELSE [s3 EXCEPT !.ret = new]

\* Mutant of get_object: the update flag is ignored, the entry is refreshed.
get_object_always_refreshing(st, name, update) ==
  IF name \notin DOMAIN st.table
    THEN Raise(st, "KeyError")
    ELSE refresh(st, st.table[name])

\* get_object(name, update=True)
get_object(st, name, update) ==
  IF name \notin DOMAIN st.table
    THEN Raise(st, "KeyError")
    ELSE LET ret_val == st.table[name]
         IN IF update THEN refresh(st, ret_val)
                      ELSE [st EXCEPT !.ret = ObjT(ret_val)]

\* Mutant of add_object: the object is stored under its descriptor.
add_object_by_descriptor(st, new_object) ==
  DictionarySet_setitem(st, new_object.descriptor, new_object)

\* add_object(new_object)
add_object(st, new_object) ==
  DictionarySet_setitem(st, new_object.name, new_object)

\* The loop of get_objects(update=True) over the keys in the order given.
RECURSIVE get_objects_loop(_, _)
get_objects_loop(st, keys) ==
  IF keys = <<>> \/ st.err # "none" THEN st
  ELSE LET name == Head(keys)
           orig == st.table[name]
           s1 == refresh(st, orig)
       IN IF s1.err # "none" THEN s1
          ELSE LET updated == s1.ret
                   s2 == DictionarySet_setitem(s1, name, updated.obj)
               IN IF s2.err # "none" THEN s2
                  ELSE get_objects_loop(
                         [s2 EXCEPT !.retList = Append(@, updated.obj)], Tail(keys))

\* get_objects(update=True); keys is the table's keys() in iteration order.
get_objects(st, update, keys) ==
  IF update
    THEN get_objects_loop(st, keys)
    ELSE [st EXCEPT !.retList = [i \in 1..Len(keys) |-> st.table[keys[i]]]]

\* delete(target)
delete(st, target) ==
  LET s1 == IF target.kind = "str" THEN get_object(st, target.str, TRUE)
            ELSE LET c == Unbound(st, "VirtualObject")
                 IN IF c.err # "none" THEN c
                    ELSE IF target.kind # "VirtualObject"
                      THEN Raise(st, "ValueError")
                    ELSE [st EXCEPT !.ret = target]
  IN IF s1.err # "none" THEN s1
     ELSE [strategy_delete(s1, s1.ret.obj) EXCEPT !.ret = None]

\* update(target, position)
update(st, target, position) ==
  LET s1 == IF target.kind = "str" THEN get_object(st, target.str, FALSE)
            ELSE LET c == Unbound(st, "VirtualObject")
                 IN IF c.err # "none" THEN c
                    ELSE IF target.kind # "VirtualObject"
                      THEN Raise(st, "ValueError")
                    ELSE [st EXCEPT !.ret = target]
  IN IF s1.err # "none" THEN s1
     ELSE LET tgt == s1.ret
              s2 == IF position.kind = "str"
                      THEN create_prefabricated(s1, position.str, NoOverrides)
                    ELSE LET c == Unbound(s1, "VirtualObjectPosition")
                         IN IF c.err # "none" THEN c
                            ELSE IF position.kind # "VirtualObjectPosition"
                              THEN Raise(s1, "ValueError")
                            ELSE [s1 EXCEPT !.ret = position]
          IN IF s2.err # "none" THEN s2
             ELSE [strategy_update(s2, <<tgt, s2.ret>>) EXCEPT !.ret = None]

\* The affector to use: the strategy's default when none was given.
resolve_affector(st, affector) ==
  IF affector = NoAffector
    THEN strategy_get_default_affector(st)
    ELSE [st EXCEPT !.aff = affector]

\* release(affector=None)
release(st, affector) ==
  LET s1 == resolve_affector(st, affector)
  IN IF s1.err # "none" THEN s1
     ELSE [strategy_release(s1, s1.aff) EXCEPT !.ret = None]

\* grab(target, affector=None)
grab(st, target, affector) ==
  LET s1 == resolve_affector(st, affector)
  IN IF s1.err # "none" THEN s1
     ELSE LET s2 == IF target.kind = "str" THEN get_object(s1, target.str, TRUE)
                    ELSE LET c == Unbound(s1, "VirtualObject")
                         IN IF c.err # "none" THEN c
                            ELSE IF target.kind # "VirtualObject"
                              THEN Raise(s1, "ValueError")
                            ELSE [s1 EXCEPT !.ret = target]
          IN IF s2.err # "none" THEN s2
             ELSE [strategy_grab(s2, s2.ret.obj, s1.aff) EXCEPT !.ret = None]

\* face(target, affector=None): the target goes to the strategy as it came.
face(st, target, affector) ==
  LET s1 == resolve_affector(st, affector)
  IN IF s1.err # "none" THEN s1
     ELSE [strategy_face(s1, target, s1.aff) EXCEPT !.ret = None]

\* put that goes on to face and release after a failed grab.
put_ignoring_grab_failure(st, target, position, affector) ==
  LET s0 == resolve_affector(st, affector)
  IN IF s0.err # "none" THEN s0
     ELSE LET s1 == [grab(s0, target, s0.aff) EXCEPT !.err = "none"]
              s2 == face(s1, position, s0.aff)
          IN IF s2.err # "none" THEN s2
             ELSE [release(s2, s0.aff) EXCEPT !.ret = None]

\* put(target, position, affector=None)
put(st, target, position, affector) ==
  LET s0 == resolve_affector(st, affector)
  IN IF s0.err # "none" THEN s0
     ELSE LET s1 == grab(s0, target, s0.aff)
          IN IF s1.err # "none" THEN s1
             ELSE LET s2 == face(s1, position, s0.aff)
                  IN IF s2.err # "none" THEN s2
                     ELSE [release(s2, s0.aff) EXCEPT !.ret = None]

\* face_by_name(name, affector=None): the affector is not passed on.
face_by_name(st, name) ==
  IF name \notin DOMAIN st.table
    THEN Raise(st, "KeyError")
    ELSE face(st, ObjT(st.table[name]), NoAffector)

\* The builder get_object_builder would memoize.
BuilderT == [kind |-> "ExternalObjectBuilder", str |-> "", pos |-> <<>>, obj |-> NoObj]

\* Number of arguments ExternalObjectBuilder.__init__ takes besides self.
ExternalObjectBuilderArity == 4

\* ExternalObjectBuilder(...) called with the arguments args.
ExternalObjectBuilder_init(st, args) ==
  IF Len(args) # ExternalObjectBuilderArity THEN Raise(st, "TypeError")
  ELSE [st EXCEPT !.ret = BuilderT]

\* get_object_builder(): builds the builder from the internal builder, the
\* object strategy and the facade when none is memoized.
get_object_builder(st) ==
  IF st.ext = None THEN
    LET s1 == ExternalObjectBuilder_init(
                st, <<"internal_object_builder", "object_strategy", "self">>)
    IN IF s1.err # "none" THEN s1
       ELSE [s1 EXCEPT !.ext = s1.ret]
  ELSE [st EXCEPT !.ret = st.ext]

(***************************************************************************)
(* Descriptions and resolved values (src/virtualobject.py).  A Python      *)
(* string is the sequence of its characters; a dict of color components    *)
(* has the keys in keys and the values <<red, green, blue>> in nums.       *)
(***************************************************************************)
DV(kind, chars, nums, keys) ==
  [kind |-> kind, chars |-> chars, nums |-> nums, keys |-> keys]

NOT_SPECIFIED == DV("None", <<>>, <<>>, {})
StrV(chars)   == DV("str", chars, <<>>, {})
DictV(keys, rgb) == DV("dict", <<>>, rgb, keys)
ListV(dims)   == DV("list", <<>>, dims, {})
ColorV(rgb)   == DV("VirtualObjectColor", <<>>, rgb, {})
\* A VirtualObjectSize is an object that can change: chars names the object
\* (<<>> for one that get_size makes from a list and no one else holds), nums
\* holds its dimensions.
SizeV(id, dims) == DV("VirtualObjectSize", id, dims, {})

\* Range of a color component.
ColorMin == 0
ColorMax == 255

\* Mutant of VirtualObjectColor(r, g, b): blue has no upper limit.
VirtualObjectColor_init_blue_unlimited(st, r, g, b) ==
  IF ~(r >= ColorMin /\ r <= ColorMax) THEN Raise(st, "ValueError: red")
  ELSE IF ~(g >= ColorMin /\ g <= ColorMax) THEN Raise(st, "ValueError: green")
  ELSE IF ~(b >= ColorMin) THEN Raise(st, "ValueError: blue")
  ELSE [st EXCEPT !.ret = ColorV(<<r, g, b>>)]

\* VirtualObjectColor(r, g, b): st.ret is the color, or ValueError naming the
\* first component out of range.
VirtualObjectColor_init(st, r, g, b) ==
  IF ~(r >= ColorMin /\ r <= ColorMax) THEN Raise(st, "ValueError: red")
  ELSE IF ~(g >= ColorMin /\ g <= ColorMax) THEN Raise(st, "ValueError: green")
  ELSE IF ~(b >= ColorMin /\ b <= ColorMax) THEN Raise(st, "ValueError: blue")
  ELSE [st EXCEPT !.ret = ColorV(<<r, g, b>>)]

\* get_red, get_green, get_blue
get_red(color)   == color.nums[1]
get_green(color) == color.nums[2]
get_blue(color)  == color.nums[3]

\* The characters the hex pattern's class [\dA-F] accepts.
RegexHexChars == {"0", "1", "2", "3", "4", "5", "6", "7", "8", "9",
                  "A", "B", "C", "D", "E", "F"}

\* int(c, 16) of one character (int accepts both cases).
HexDigit(c) ==
  CASE c = "0" -> 0 [] c = "1" -> 1 [] c = "2" -> 2 [] c = "3" -> 3
    [] c = "4" -> 4 [] c = "5" -> 5 [] c = "6" -> 6 [] c = "7" -> 7
    [] c = "8" -> 8 [] c = "9" -> 9
    [] c \in {"A", "a"} -> 10 [] c \in {"B", "b"} -> 11
    [] c \in {"C", "c"} -> 12 [] c \in {"D", "d"} -> 13
    [] c \in {"E", "e"} -> 14 [] c \in {"F", "f"} -> 15

\* int(group, 16) of the two characters at i and i+1.
HexPair(chars, i) == 16 * HexDigit(chars[i]) + HexDigit(chars[i + 1])

\* Number of hex digits the pattern consumes.
HexDigits == 6

\* The pattern "\#([\dA-F]{2})([\dA-F]{2})([\dA-F]{2})" applied with match():
\* anchored at the start of the string, not at its end.
hex_regex_match(chars) ==
  /\ Len(chars) >= 1 + HexDigits
  /\ chars[1] = "#"
  /\ \A i \in 2..(1 + HexDigits) : chars[i] \in RegexHexChars

\* ComplexColorResolutionStrategy.get_color(description)
get_color(st, description) ==
  IF description.kind = "str" THEN
    IF description.chars = <<>> THEN Raise(st, "IndexError")
    ELSE IF description.chars[1] = "#" THEN
      IF ~hex_regex_match(description.chars)
        THEN Raise(st, "ValueError: invalid color value")
        ELSE VirtualObjectColor_init(st, HexPair(description.chars, 2),
                                     HexPair(description.chars, 4),
                                     HexPair(description.chars, 6))
    ELSE IF description.chars \in DOMAIN st.colors
      THEN [st EXCEPT !.ret = st.colors[description.chars]]
    ELSE Raise(st, "ValueError: unknown name")
  ELSE IF description.kind = "dict" THEN
    LET red == description.nums[1]
        green == description.nums[2]
        blue == description.nums[3]
    IN IF "red" \notin description.keys THEN Raise(st, "ValueError: red not specified")
       ELSE IF red > ColorMax \/ red < ColorMin THEN Raise(st, "ValueError: red range")
       ELSE IF "blue" \notin description.keys THEN Raise(st, "ValueError: blue not specified")
       ELSE IF blue > ColorMax \/ blue < ColorMin THEN Raise(st, "ValueError: blue range")
       ELSE IF "green" \notin description.keys THEN Raise(st, "ValueError: green not specified")
       ELSE IF green > ColorMax \/ green < ColorMin THEN Raise(st, "ValueError: green range")
       ELSE VirtualObjectColor_init(st, red, green, blue)
  ELSE Raise(st, "ValueError: unknown type")

\* ComplexColorResolutionStrategy.add_color(name, color)
add_color(st, name, color) ==
  LET s1 == IF color.kind # "VirtualObjectColor" THEN get_color(st, color)
                                                 ELSE [st EXCEPT !.ret = color]
  IN IF s1.err # "none" THEN s1
     ELSE [s1 EXCEPT !.colors = Put(@, name, s1.ret), !.ret = NOT_SPECIFIED]

\* The errors that are a ValueError, whatever their message.
ValueErrors == {"ValueError", "ValueError: red", "ValueError: green",
                "ValueError: blue", "ValueError: invalid color value",
                "ValueError: unknown name", "ValueError: red not specified",
                "ValueError: red range", "ValueError: blue not specified",
                "ValueError: blue range", "ValueError: green not specified",
                "ValueError: green range", "ValueError: unknown type"}

(***************************************************************************)
(* ComplexNamedSizeResolver and MappedObjectResolver as the tests          *)
(* configure them (src/test/topleveltests.py, setUp).                      *)
(***************************************************************************)
RedName   == <<"r", "e", "d">>
BlueName  == <<"b", "l", "u", "e">>
SmallName == <<"s", "m", "a", "l", "l">>
LargeName == <<"l", "a", "r", "g", "e">>
HugeName  == <<"h", "u", "g", "e">>
CubeName  == <<"c", "u", "b", "e">>
SphereName == <<"s", "p", "h", "e", "r", "e">>

Red   == ColorV(<<255, 0, 10>>)
Blue  == ColorV(<<0, 11, 250>>)
Small == SizeV(SmallName, <<1, 2, 3>>)
Large == SizeV(LargeName, <<4, 5, 6>>)

\* A size the client constructs itself, VirtualObjectSize([7, 8, 9]).
Custom == SizeV(<<"c", "u", "s", "t", "o", "m">>, <<7, 8, 9>>)

\* The color table create_strategy builds from test_color_data.
TestColors == [n \in {RedName, BlueName} |-> IF n = RedName THEN Red ELSE Blue]

\* The size resolver's name -> VirtualObjectSize mapping as create_resolver
\* builds it from test_size_data.
TestSizes == [n \in {SmallName, LargeName} |->
                IF n = SmallName THEN Small ELSE Large]

\* list[key] for a list of n elements: the element's place counted from 1,
\* or 0 when key is out of range; a negative key counts from the end.
ListIndex(key, n) ==
  IF key >= 0 /\ key < n THEN key + 1
  ELSE IF key < 0 /\ -key <= n THEN n + key + 1
  ELSE 0

\* VirtualObjectSize.__setitem__(key, value): self.__dimensions[key] = value;
\* st.ret is self after the assignment.
VirtualObjectSize_setitem(st, self, key, value) ==
  LET i == ListIndex(key, Len(self.nums))
  IN IF i = 0 THEN Raise(st, "IndexError")
     ELSE [st EXCEPT !.ret = [self EXCEPT !.nums[i] = value]]

\* VirtualObjectSize.__delitem__(key): del self.__dimensions[key]; st.ret is
\* self after the deletion.
VirtualObjectSize_delitem(st, self, key) ==
  LET i == ListIndex(key, Len(self.nums))
  IN IF i = 0 THEN Raise(st, "IndexError")
     ELSE [st EXCEPT !.ret = [self EXCEPT !.nums = SubSeq(@, 1, i - 1)
                                                    \o SubSeq(@, i + 1, Len(@))]]

\* ComplexNamedSizeResolver.get_size(description)
get_size(st, description) ==
  IF description.kind = "str" THEN
    IF description.chars \in DOMAIN size_mapping
      THEN [st EXCEPT !.ret = size_mapping[description.chars]]
      ELSE Raise(st, "KeyError")
  ELSE IF description.kind = "list"
    THEN [st EXCEPT !.ret = SizeV(<<>>, description.nums)]
  ELSE Raise(st, "ValueError")

\* ComplexNamedSizeResolver.add_size(name, size): binds the name to the
\* size, replacing the size of a name that is registered.
add_size(st, name, size) == [st EXCEPT !.sizes = Put(@, name, size)]

\* The prototype resolver's name -> flyweight mapping as create_resolver
\* builds it from prefab_data: a flyweight holds the color and the size
\* object the resolvers return for the prototype's names at that time.
TestPrototypes ==
  [n \in {"small_red_cube", "large_blue_sphere"} |->
     IF n = "small_red_cube"
       THEN [color |-> Red, size |-> TestSizes[SmallName],
             descriptor |-> StrV(CubeName)]
       ELSE [color |-> Blue, size |-> TestSizes[LargeName],
             descriptor |-> StrV(SphereName)]]

\* Mutant of the resolver's getters: a name that is not registered resolves
\* to the first prototype.
resolver_get_defaulting(st, name, field) ==
  IF name \notin DOMAIN prototype_mapping
    THEN [st EXCEPT !.ret = prototype_mapping["small_red_cube"][field]]
    ELSE [st EXCEPT !.ret = prototype_mapping[name][field]]

\* MappedObjectResolver.get_descriptor / get_size / get_color
resolver_get(st, name, field) ==
  IF name \notin DOMAIN prototype_mapping
    THEN Raise(st, "KeyError")
    ELSE [st EXCEPT !.ret = prototype_mapping[name][field]]

\* ObjectResolverFlyweight.__init__: the types of the three arguments are
\* enforced.
ObjectResolverFlyweight(st, color, size, descriptor) ==
  IF color.kind # "VirtualObjectColor" THEN Raise(st, "TypeError")
  ELSE IF size.kind # "VirtualObjectSize" THEN Raise(st, "TypeError")
  ELSE IF descriptor.kind # "str" THEN Raise(st, "TypeError")
  ELSE [st EXCEPT !.ret = [color |-> color, size |-> size,
                           descriptor |-> descriptor]]

\* MappedObjectResolver.add_object (the facade's add_object is another
\* method): the name is bound to the flyweight, registered before or not.
MappedObjectResolver_add_object(st, name, flyweight) ==
  [st EXCEPT !.prototypes = Put(@, name, flyweight)]

(***************************************************************************)
(* The builders (src/builders.py).  The running state of a builder method  *)
(* holds the inner builder's pending values and the complex builder's      *)
(* descriptor_set flag (b), the objects handed to create_object (created), *)
(* the color table, the exception raised and the value returned.           *)
(***************************************************************************)
NoBuilt == VirtualObject("", <<>>, NOT_SPECIFIED, NOT_SPECIFIED, NOT_SPECIFIED)

BStart == [b |-> builder, created |-> <<>>, colors |-> colors,
           err |-> "none", ret |-> NoBuilt]

\* VirtualObject.__init__: the types of the five arguments are enforced.
VirtualObject_init(st, name, position, descriptor, color, size) ==
  IF name.kind # "str" THEN Raise(st, "TypeError")
  ELSE IF position.kind # "VirtualObjectPosition" THEN Raise(st, "TypeError")
  ELSE IF descriptor.kind # "str" THEN Raise(st, "TypeError")
  ELSE IF color.kind # "VirtualObjectColor" THEN Raise(st, "TypeError")
  ELSE IF size.kind # "VirtualObjectSize" THEN Raise(st, "TypeError")
  ELSE [st EXCEPT !.ret = VirtualObject(name.str, position.pos, descriptor,
                                        color, size)]

\* The construction strategy's create_object: the dummy's does nothing, the
\* abstract base's raises NotImplementedError.
create_object(st, virtual_object) ==
  LET s1 == [st EXCEPT !.created = Append(@, virtual_object)]
  IN IF inherited = "create_object" THEN Raise(s1, "NotImplementedError") ELSE s1

\* Mutant of set_descriptor: the first descriptor set is kept.
set_descriptor_once(st, new_descriptor) ==
  IF st.b.descriptor = NOT_SPECIFIED
    THEN [st EXCEPT !.b.descriptor = new_descriptor]
    ELSE st

\* VirtualObjectBuilder.set_descriptor / set_color / set_size
set_descriptor(st, new_descriptor) == [st EXCEPT !.b.descriptor = new_descriptor]
set_color(st, new_color)           == [st EXCEPT !.b.color = new_color]
set_size(st, new_size)             == [st EXCEPT !.b.size = new_size]

\* Mutant of VirtualObjectBuilder.create: the color is checked first.
VirtualObjectBuilder_create_color_first(st, name, position) ==
  IF st.b.color = NOT_SPECIFIED THEN Raise(st, "AttributeError: color")
  ELSE IF st.b.descriptor = NOT_SPECIFIED THEN Raise(st, "AttributeError: descriptor")
  ELSE IF st.b.size = NOT_SPECIFIED THEN Raise(st, "AttributeError: size")
  ELSE LET s1 == VirtualObject_init(st, name, position, st.b.descriptor,
                                    st.b.color, st.b.size)
       IN IF s1.err # "none" THEN s1
          ELSE [create_object(s1, s1.ret) EXCEPT !.ret = s1.ret]

\* VirtualObjectBuilder.create(name, position)
VirtualObjectBuilder_create(st, name, position) ==
  IF st.b.descriptor = NOT_SPECIFIED THEN Raise(st, "AttributeError: descriptor")
  ELSE IF st.b.color = NOT_SPECIFIED THEN Raise(st, "AttributeError: color")
  ELSE IF st.b.size = NOT_SPECIFIED THEN Raise(st, "AttributeError: size")
  ELSE LET s1 == VirtualObject_init(st, name, position, st.b.descriptor,
                                    st.b.color, st.b.size)
       IN IF s1.err # "none" THEN s1
          ELSE [create_object(s1, s1.ret) EXCEPT !.ret = s1.ret]

\* ComplexObjectBuilder.set_new_descriptor
set_new_descriptor(st, descriptor) ==
  [set_descriptor(st, descriptor) EXCEPT !.b.descriptor_set = TRUE]

\* ComplexObjectBuilder.set_new_color: __init__ never stores the color
\* resolution strategy, so reading the attribute raises AttributeError.
set_new_color(st, color) ==
  IF color.kind # "VirtualObjectColor"
    THEN Raise(st, "AttributeError: __color_resolution_strategy")
    ELSE set_color(st, color)

\* ComplexObjectBuilder.set_new_size: __init__ never stores the size resolver.
set_new_size(st, size) ==
  IF size.kind # "VirtualObjectSize"
    THEN Raise(st, "AttributeError: __named_size_resolver")
    ELSE set_size(st, size)

\* ComplexObjectBuilder.set_new_size_by_name
set_new_size_by_name(st, name) ==
  IF ~st.b.descriptor_set THEN Raise(st, "ValueError")
  ELSE Raise(st, "AttributeError: __named_size_resolver")

\* ComplexObjectBuilder.create(name, position)
ComplexObjectBuilder_create(st, name, position) ==
  IF position.kind = "str" THEN
    LET s1 == create_prefabricated(st, position.str, NoOverrides)
    IN IF s1.err # "none" THEN s1
       ELSE VirtualObjectBuilder_create([s1 EXCEPT !.ret = NoBuilt], name, s1.ret)
  ELSE LET c == Unbound(st, "VirtualObjectPosition")
       IN IF c.err # "none" THEN c
          ELSE IF position.kind # "VirtualObjectPosition"
            THEN Raise(st, "ValueError")
          ELSE VirtualObjectBuilder_create(st, name, position)

\* Mutant of load_from_config: the prototype's color is not applied.
load_from_config_without_color(st, name) ==
  LET d == resolver_get(st, name, "descriptor")
      s == resolver_get(st, name, "size")
      c == resolver_get(st, name, "color")
  IN IF d.err # "none" THEN d
     ELSE IF s.err # "none" THEN s
     ELSE IF c.err # "none" THEN c
     ELSE LET s1 == set_new_descriptor(st, d.ret)
              s2 == IF s1.err # "none" THEN s1 ELSE set_new_size(s1, s.ret)
          IN s2

\* ComplexObjectBuilder.load_from_config(name)
load_from_config(st, name) ==
  LET d == resolver_get(st, name, "descriptor")
      s == resolver_get(st, name, "size")
      c == resolver_get(st, name, "color")
  IN IF d.err # "none" THEN d
     ELSE IF s.err # "none" THEN s
     ELSE IF c.err # "none" THEN c
     ELSE LET s1 == set_new_descriptor(st, d.ret)
              s2 == IF s1.err # "none" THEN s1 ELSE set_new_size(s1, s.ret)
          IN IF s2.err # "none" THEN s2 ELSE set_new_color(s2, c.ret)

(***************************************************************************)
(* ExternalObjectBuilder (src/manipulation.py): the builder a client       *)
(* constructs around the inner builder, the prototype resolver, the        *)
(* position factory and the facade.  Its running state holds the facade's  *)
(* table next to the inner builder's pending values.                       *)
(***************************************************************************)
\* ExternalObjectBuilder.set_new_descriptor
External_set_new_descriptor(st, descriptor) ==
  [set_descriptor(st, descriptor) EXCEPT !.b.external_descriptor_set = TRUE]

\* ExternalObjectBuilder.set_new_color
External_set_new_color(st, color) == set_color(st, color)

\* ExternalObjectBuilder.set_new_size
External_set_new_size(st, size) == set_size(st, size)

\* ExternalObjectBuilder.set_new_size_by_name: __init__ never stores a
\* named size resolver.
External_set_new_size_by_name(st, name) ==
  IF ~st.b.external_descriptor_set THEN Raise(st, "ValueError")
  ELSE Raise(st, "AttributeError: __named_size_resolver")

\* Mutant of ExternalObjectBuilder.create: the new object is not registered.
External_create_unregistered(st, name, position) ==
  IF position.kind = "str" THEN
    LET s1 == create_prefabricated(st, position.str, NoOverrides)
    IN IF s1.err # "none" THEN s1
       ELSE VirtualObjectBuilder_create([s1 EXCEPT !.ret = NoBuilt], name, s1.ret)
  ELSE LET c == Unbound(st, "VirtualObjectPosition")
       IN IF c.err # "none" THEN c
          ELSE IF position.kind # "VirtualObjectPosition"
            THEN Raise(st, "ValueError")
          ELSE VirtualObjectBuilder_create(st, name, position)

\* ExternalObjectBuilder.create(name, position): the inner builder creates
\* the object, then the facade's add_object registers it.
External_create(st, name, position) ==
  LET s1 == IF position.kind = "str"
              THEN create_prefabricated(st, position.str, NoOverrides)
            ELSE LET c == Unbound(st, "VirtualObjectPosition")
                 IN IF c.err # "none" THEN c
                    ELSE IF position.kind # "VirtualObjectPosition"
                      THEN Raise(st, "ValueError")
                    ELSE [st EXCEPT !.ret = position]
      s2 == IF s1.err # "none" THEN s1
            ELSE VirtualObjectBuilder_create([s1 EXCEPT !.ret = NoBuilt], name,
                                             s1.ret)
  IN IF s2.err # "none" THEN s2
     ELSE LET new_object == s2.ret
              s3 == add_object(s2, new_object)
          IN IF s3.err # "none" THEN s3 ELSE [s3 EXCEPT !.ret = new_object]

\* ExternalObjectBuilder.load_from_config(name)
External_load_from_config(st, name) ==
  LET d == resolver_get(st, name, "descriptor")
      s == resolver_get(st, name, "size")
      c == resolver_get(st, name, "color")
  IN IF d.err # "none" THEN d
     ELSE IF s.err # "none" THEN s
     ELSE IF c.err # "none" THEN c
     ELSE LET s1 == External_set_new_descriptor(st, d.ret)
              s2 == IF s1.err # "none" THEN s1
                    ELSE External_set_new_size(s1, s.ret)
          IN IF s2.err # "none" THEN s2 ELSE External_set_new_color(s2, c.ret)

(***************************************************************************)
(* The position factory's construction and relative positions              *)
(* (src/state.py, src/configurable.py).  A factory is its three default    *)
(* rotations and its name -> position table.                               *)
(***************************************************************************)
EmptyPositions == [n \in {} |-> Origin]

\* VirtualObjectPositionFactory.__init__
VirtualObjectPositionFactory(default_roll, default_pitch, default_yaw, positions) ==
  [kind |-> "VirtualObjectPositionFactory", default_roll |-> default_roll,
   default_pitch |-> default_pitch, default_yaw |-> default_yaw,
   prefabricated_positions |-> positions]

NoFactory == [VirtualObjectPositionFactory(0, 0, 0, EmptyPositions)
                EXCEPT !.kind = "None"]

\* VirtualObjectPositionFactoryConstructor.DEFAULT_ROLL / _PITCH / _YAW
DEFAULT_ROLL == 0
DEFAULT_PITCH == 0
DEFAULT_YAW == 0

\* VirtualObjectPosition.DEFAULT: the class VirtualObjectPosition defines no
\* attribute DEFAULT (VirtualObjectPositionFactory does).
VirtualObjectPosition_DEFAULT(st) == Raise(st, "AttributeError")

\* create_position_relative(position, x, y, z, roll, pitch, yaw) on the
\* factory self; rotation[i] is DEFAULT or the supplied <<v>>.
create_position_relative(st, self, position, x, y, z, rotation) ==
  LET s0 == VirtualObjectPositionFactory_class(st)
      d == VirtualObjectPosition_DEFAULT(s0)
  IN IF s0.err # "none" THEN s0
     ELSE IF d.err # "none" THEN d
     ELSE LET roll  == IF rotation[1] = DEFAULT THEN self.default_roll
                                                ELSE rotation[1][1]
              pitch == IF rotation[2] = DEFAULT THEN self.default_pitch
                                                ELSE rotation[2][1]
              yaw   == IF rotation[3] = DEFAULT THEN self.default_yaw
                                                ELSE rotation[3][1]
          IN VirtualObjectPosition_init(
               s0, <<x + position[1], y + position[2], z + position[3],
                     roll + position[4], pitch + position[5],
                     yaw + position[6]>>)

\* A configuration entry is <<x, y, z, roll, pitch, yaw>> with <<>> for a key
\* the entry lacks and <<v>> for a key it has.
HasKey(entry, i) == entry[i] # <<>>

\* The loop of create_factory over data.keys(), here names; positions is the
\* table built so far.
RECURSIVE create_factory_loop(_, _, _, _)
create_factory_loop(st, entries, names, positions) ==
  IF names = <<>> THEN [st EXCEPT !.ret = positions]
  ELSE LET entry == entries[Head(names)]
       IN IF ~HasKey(entry, 1) THEN Raise(st, "ValueError")
          ELSE IF ~HasKey(entry, 2) THEN Raise(st, "ValueError")
          ELSE IF ~HasKey(entry, 3) THEN Raise(st, "ValueError")
          ELSE LET roll  == IF ~HasKey(entry, 4) THEN DEFAULT_ROLL ELSE entry[4][1]
                   pitch == IF ~HasKey(entry, 5) THEN DEFAULT_PITCH ELSE entry[5][1]
                   yaw   == IF ~HasKey(entry, 6) THEN DEFAULT_YAW ELSE entry[6][1]
                   s1 == VirtualObjectPosition_init(
                           st, <<entry[1][1], entry[2][1], entry[3][1],
                                 roll, pitch, yaw>>)
               IN IF s1.err # "none" THEN s1
                  ELSE create_factory_loop(
                         st, entries, Tail(names),
                         Put(positions, Head(names), s1.ret.pos))

\* state.VirtualObjectPositionFactory as configurable.py reads it: an
\* attribute of the module state, which as shipped holds the classes defined
\* before the class statement of VirtualObjectPositionFactory raised and not
\* this one.
state_VirtualObjectPositionFactory(st) ==
  IF "state" \in environment THEN st
  ELSE Raise(st, "AttributeError")

\* VirtualObjectPositionFactoryConstructor.create_factory(data); names is the
\* order in which data.keys() lists the names.
create_factory(st, data, names) ==
  IF data.kind # "dict" THEN Raise(st, "ValueError")
  ELSE LET s1 == create_factory_loop(st, data.entries, names, EmptyPositions)
           s2 == state_VirtualObjectPositionFactory(s1)
       IN IF s1.err # "none" THEN s1
          ELSE IF s2.err # "none" THEN s2
          ELSE [s1 EXCEPT !.ret = VirtualObjectPositionFactory(
                                    DEFAULT_ROLL, DEFAULT_PITCH, DEFAULT_YAW, s1.ret)]

(***************************************************************************)
(* Setups and their manager (src/experiment.py) and the manager's factory  *)
(* (src/configurable.py).  The running state of a manager or factory       *)
(* method holds the manager's store (store: its type, table: its entries), *)
(* the builder the factory drives (b,                                      *)
(* created, colors), the exception raised and the values returned (setup,  *)
(* manager).                                                               *)
(***************************************************************************)
\* Setup.__init__
Setup(name, objects, robot_state, robot_descriptor) ==
  [name |-> name, objects |-> objects, robot_state |-> robot_state,
   robot_descriptor |-> robot_descriptor]

NoSetup == Setup("", <<>>, "", "")
EmptySetups == [n \in {} |-> NoSetup]

\* SetupManager.__init__(setups): store names the type of the mapping given.
SetupManager(store, mapping) ==
  [kind |-> "SetupManager", store |-> store, setups |-> mapping]

NoManager == [SetupManager("dict", EmptySetups) EXCEPT !.kind = "None"]

\* SetupManager.get(name)
SetupManager_get(st, name) ==
  IF name \notin DOMAIN st.table THEN Raise(st, "ValueError")
  ELSE [st EXCEPT !.setup = st.table[name]]

\* The stores a manager is constructed with: the DictionarySet the
\* constructor documents and the dict create_setup_manager passes.
Stores == {"DictionarySet", "dict"}

\* dict.__setitem__: binds the key, replacing the value of a key it has.
dict_setitem(st, key, value) == [st EXCEPT !.table = Put(@, key, value)]

\* SetupManager.add(name, setup): self.__setups[name] = setup, the
\* __setitem__ of the store the manager was constructed with.
SetupManager_add(st, name, setup) ==
  IF st.store = "DictionarySet"
    THEN DictionarySet_setitem(st, name, setup)
    ELSE dict_setitem(st, name, setup)

\* An object entry of a setup's configuration: a dictionary of the four
\* fields (each <<value>>, or <<>> when the key is absent), the name of a
\* prototype, or a value of another type.
DictEntry(color, position, descriptor, size) ==
  [kind |-> "dict", str |-> "", color |-> <<color>>, position |-> <<position>>,
   descriptor |-> <<descriptor>>, size |-> <<size>>]
StrEntry(name) ==
  [kind |-> "str", str |-> name, color |-> <<>>, position |-> <<>>,
   descriptor |-> <<>>, size |-> <<>>]
ListEntry ==
  [kind |-> "list", str |-> "", color |-> <<>>, position |-> <<>>,
   descriptor |-> <<>>, size |-> <<>>]

\* create_setup_manager tests objdata, a name the method never assigns (it
\* binds obj_data): reading it raises NameError.
objdata(st) == Raise(st, "NameError")

\* The body of create_setup_manager's loop over the object names of a setup.
\* A ComplexObjectBuilder has no set_descriptor, and position_data is
\* unbound where a prototype is loaded.
create_setup_manager_object(st, obj_name, obj_data) ==
  LET s0 == objdata(st)
  IN IF s0.err # "none" THEN s0
     ELSE IF obj_data.kind = "dict" THEN
            IF \E f \in {obj_data.color, obj_data.position,
                         obj_data.descriptor, obj_data.size} : f = <<>>
              THEN Raise(st, "KeyError")
              ELSE Raise(st, "AttributeError")
     ELSE IF obj_data.kind = "str" THEN
            LET s1 == load_from_config(st, obj_data.str)
            IN IF s1.err # "none" THEN s1 ELSE Raise(s1, "UnboundLocalError")
     ELSE Raise(st, "TypeError")

RECURSIVE create_setup_manager_objects(_, _, _)
\* The loop over the object names of one setup, in the order names.
create_setup_manager_objects(st, setup_data, names) ==
  IF names = <<>> \/ st.err # "none" THEN st
  ELSE LET s1 == create_setup_manager_object(st, Head(names),
                                             setup_data[Head(names)])
       IN IF s1.err # "none" THEN s1
          ELSE create_setup_manager_objects(
                 [s1 EXCEPT !.objs = Append(@, s1.ret)], setup_data, Tail(names))

RECURSIVE create_setup_manager_loop(_, _, _, _, _)
\* The loop over the setup names: builds the objects of the setup, then
\* evaluates experiment.Setup for its name and its objects, and after the
\* last setup experiment.SetupManager; configurable.py binds no name
\* experiment.
create_setup_manager_loop(st, data, names, orders, mapping) ==
  IF names = <<>>
    THEN Unbound(st, "experiment")
  ELSE LET setup_name == Head(names)
           s1 == create_setup_manager_objects([st EXCEPT !.objs = <<>>],
                                              data[setup_name], orders[setup_name])
           s2 == IF s1.err # "none" THEN s1
                 ELSE Unbound(s1, "experiment")
       IN IF s2.err # "none" THEN s2
          ELSE create_setup_manager_loop(s2, data, Tail(names), orders,
                                         Put(mapping, setup_name, s2.setup))

\* SetupManagerFactory.create_setup_manager(data, obj_builder): names and
\* orders are the orders in which the dictionaries list their keys.
create_setup_manager(st, data, names, orders) ==
  create_setup_manager_loop(st, data, names, orders, EmptySetups)

(***************************************************************************)
(* The state machine: a client calls the facade's methods one at a time.   *)
(***************************************************************************)
EmptyTable == [x \in {} |-> NoObj]

\* The strategy classes considered: the dummy itself ("none") and subclasses
\* of the abstract strategy that leave one operation unimplemented.
InheritedChoices == {"none", "face", "release"}

\* VirtualObjectBuilder.__init__ and ComplexObjectBuilder.__init__
NewBuilder == [descriptor |-> NOT_SPECIFIED, color |-> NOT_SPECIFIED,
               size |-> NOT_SPECIFIED, descriptor_set |-> FALSE,
               external_descriptor_set |-> FALSE]

\* The values most recently given to the builder's setters.
NothingSet == [descriptor |-> NOT_SPECIFIED, color |-> NOT_SPECIFIED,
               size |-> NOT_SPECIFIED]

NoBuilderCall == [op |-> "init", name |-> "", position |-> None,
                  arg |-> NOT_SPECIFIED, err |-> "none", ret |-> NoBuilt,
                  pre |-> NewBuilder, recent |-> NothingSet, loaded |-> ""]

\* ComplexColorResolutionStrategy.__init__: no color is registered.
EmptyColors == [n \in {} |-> NOT_SPECIFIED]

EmptyEntries == [n \in {} |-> NoOverrides]
NoData == [kind |-> "None", entries |-> EmptyEntries]

\* No setup manager call yet.
EmptyData == [n \in {} |-> [k \in {} |-> ListEntry]]
NoSetupCall == [op |-> "init", name |-> "", setup |-> NoSetup, data |-> EmptyData,
                err |-> "none", ret |-> NoSetup, manager |-> NoManager,
                pre |-> EmptySetups, first |-> EmptySetups]

NoCall == [op |-> "init", name |-> "", key |-> <<>>, desc |-> NOT_SPECIFIED,
           nums |-> <<>>, base |-> <<>>, rotation |-> <<>>, data |-> NoData,
           factory |-> NoFactory,
           over |-> NoOverrides, err |-> "none", ret |-> NOT_SPECIFIED,
           pos |-> <<>>, pre |-> EmptyColors]

\* ObjectManipulationFacade.__init__: the tracking table is
\* structures.DictionarySet(), and manipulation.py binds no name structures.
ObjectManipulationFacade_init(st) ==
  IF "structures" \notin environment THEN Unbound(st, "structures")
  ELSE [st EXCEPT !.table = EmptyTable]

\* The client constructs the strategy and then the facade; where the
\* constructor raises there is no facade to call.
Init ==
  /\ environment \in Environments
  /\ virtual_objects = EmptyTable
  /\ strategy = [virtual_objects |-> EmptyTable, grabbed |-> None, facing |-> None]
  /\ inherited \in InheritedChoices
  /\ calls = <<>>
  /\ last = [op |-> "init", target |-> None, position |-> None,
             affector |-> NoAffector, update |-> FALSE,
             err |-> ObjectManipulationFacade_init(
                       [table |-> EmptyTable, err |-> "none"]).err,
             ret |-> None, retList |-> <<>>, pre |-> EmptyTable]
  /\ ops = 0
  /\ external_facing_object_builder = None
  /\ builder = NewBuilder
  /\ created = <<>>
  /\ blast = NoBuilderCall
  /\ colors = EmptyColors
  /\ fcall = NoCall
  /\ setup_manager = SetupManager("DictionarySet", EmptySetups)
  /\ size_mapping = TestSizes
  /\ prototype_mapping = TestPrototypes
  /\ scall = NoSetupCall

\* The method has run to its return or to its exception: st becomes the state.
Finish(st, op, target, position, affector, upd) ==
  /\ ~(last.op = "init" /\ last.err # "none")
  /\ ops < MaxOps
  /\ ops' = ops + 1
  /\ virtual_objects' = st.table
  /\ strategy' = [virtual_objects |-> st.vo, grabbed |-> st.grabbed,
                  facing |-> st.facing]
  /\ calls' = st.calls
  /\ last' = [op |-> op, target |-> target, position |-> position,
              affector |-> affector, update |-> upd, err |-> st.err,
              ret |-> IF st.err = "none" THEN st.ret ELSE None,
              retList |-> IF st.err = "none" THEN st.retList ELSE <<>>,
              pre |-> virtual_objects]
  /\ external_facing_object_builder' = st.ext
  /\ UNCHANGED <<inherited, builder, created, blast, colors, fcall, setup_manager, scall,
                 size_mapping, prototype_mapping, environment>>

\* The orders in which keys() may list the keys S.
KeyOrders(S) ==
  {f \in [1..Cardinality(S) -> S] : \A i, j \in DOMAIN f : i # j => f[i] # f[j]}

\* Names a client may ask for: the object names and an unknown one.
NameArgs == ObjectNames \cup {"nowhere"}

\* What a client may pass as a target: an object, the name of an object, an
\* unknown name, or (wrongly typed for all but face) a position.
Targets == {ObjT(o) : o \in Objects} \cup {StrT("cube1"), StrT("nowhere")}
           \cup {PosT(Origin)}

\* What a client may pass as a position: a position, the name of a
\* prefabricated position, another string, or (wrongly typed) an object.
PositionArgs == {PosT(Offset), StrT("offset"), StrT("nowhere"),
                 ObjT(ClientObject("cube1"))}

\* What a client may ask the robot to face.
FaceTargets == {ObjT(o) : o \in Objects} \cup {StrT(s) : s \in Strings}
               \cup {PosT(Offset)}

AddObject ==
  \E o \in Objects :
    Finish(add_object(Start, o), "add_object", ObjT(o), None, NoAffector, FALSE)

GetObject ==
  \E name \in NameArgs, upd \in BOOLEAN :
    Finish(get_object(Start, name, upd), "get_object", StrT(name), None,
           NoAffector, upd)

GetObjects ==
  \E upd \in BOOLEAN, keys \in KeyOrders(DOMAIN virtual_objects) :
    Finish(get_objects(Start, upd, keys), "get_objects", None, None,
           NoAffector, upd)

Refresh ==
  \E o \in Objects :
    Finish(refresh(Start, o), "refresh", ObjT(o), None, NoAffector, FALSE)

Delete ==
  \E t \in Targets :
    Finish(delete(Start, t), "delete", t, None, NoAffector, FALSE)

Update ==
  \E t \in Targets, p \in PositionArgs :
    Finish(update(Start, t, p), "update", t, p, NoAffector, FALSE)

Grab ==
  \E t \in Targets, a \in Affectors :
    Finish(grab(Start, t, a), "grab", t, None, a, FALSE)

Face ==
  \E t \in FaceTargets, a \in Affectors :
    Finish(face(Start, t, a), "face", t, None, a, FALSE)

Release ==
  \E a \in Affectors :
    Finish(release(Start, a), "release", None, None, a, FALSE)

PutObject ==
  \E t \in Targets, p \in PositionArgs, a \in Affectors :
    Finish(put(Start, t, p, a), "put", t, p, a, FALSE)

FaceByName ==
  \E name \in NameArgs :
    Finish(face_by_name(Start, name), "face_by_name", StrT(name), None,
           NoAffector, FALSE)

GetObjectBuilder ==
  Finish(get_object_builder(Start), "get_object_builder", None, None,
         NoAffector, FALSE)

Next ==
  \/ AddObject
  \/ GetObject
  \/ GetObjects
  \/ Refresh
  \/ Delete
  \/ Update
  \/ Grab
  \/ Face
  \/ Release
  \/ PutObject
  \/ FaceByName
  \/ GetObjectBuilder

Spec == Init /\ [][Next]_vars

(***************************************************************************)
(* The state machine of the builders: a client calls the methods of the    *)
(* inner builder and of the complex builder that wraps it.                 *)
(***************************************************************************)
\* The construction strategies considered: the dummy ("none") and one that
\* leaves create_object to the abstract base.
ConstructionChoices == {"none", "create_object"}

InitBuilder ==
  /\ environment = Patched
  /\ virtual_objects = EmptyTable
  /\ strategy = [virtual_objects |-> EmptyTable, grabbed |-> None, facing |-> None]
  /\ inherited \in ConstructionChoices
  /\ calls = <<>>
  /\ last = [op |-> "init", target |-> None, position |-> None,
             affector |-> NoAffector, update |-> FALSE, err |-> "none",
             ret |-> None, retList |-> <<>>, pre |-> EmptyTable]
  /\ ops = 0
  /\ external_facing_object_builder = None
  /\ builder = NewBuilder
  /\ created = <<>>
  /\ blast = NoBuilderCall
  /\ colors = TestColors
  /\ fcall = NoCall
  /\ setup_manager = SetupManager("DictionarySet", EmptySetups)
  /\ size_mapping = TestSizes
  /\ prototype_mapping = TestPrototypes
  /\ scall = NoSetupCall

\* The builder method has run to its return or to its exception.  recent and
\* loaded follow the calls: recent holds the values the client set last, and
\* loaded names the prototype a load_from_config applied when only creates
\* were called since.
BFinish(st, op, name, position, arg, recent, loaded) ==
  /\ builder' = st.b
  /\ created' = st.created
  /\ blast' = [op |-> op, name |-> name, position |-> position, arg |-> arg,
               err |-> st.err,
               ret |-> IF st.err = "none" /\ op \in {"create", "complex_create"}
                         THEN st.ret ELSE NoBuilt,
               pre |-> builder,
               recent |-> IF st.err = "none" THEN recent ELSE blast.recent,
               loaded |-> loaded]
  /\ UNCHANGED <<virtual_objects, strategy, inherited, calls, last, ops,
                 external_facing_object_builder, colors, fcall, setup_manager, scall,
                 size_mapping, prototype_mapping, environment>>

\* Values of the documented types a client passes to the setters.
Descriptors == {StrV(CubeName), StrV(SphereName)}
ResolvedColors == {Red, Blue}
ResolvedSizes == {size_mapping[n] : n \in DOMAIN size_mapping}

\* Raw descriptions a client passes to the complex builder.
RawColors == {StrV(RedName), StrV(<<"#", "0", "0", "1", "1", "A", "2">>),
              DictV({"red", "green", "blue"}, <<100, 102, 101>>)}
RawSizes == {StrV(SmallName), ListV(<<11, 12, 13>>)}
SizeNames == {SmallName, LargeName, HugeName}
PrototypeNames == DOMAIN prototype_mapping \cup {"nowhere"}

SetDescriptor ==
  \E d \in Descriptors :
    BFinish(set_descriptor(BStart, d), "set_descriptor", "", None, d,
            [blast.recent EXCEPT !.descriptor = d], "")

SetColor ==
  \E c \in ResolvedColors :
    BFinish(set_color(BStart, c), "set_color", "", None, c,
            [blast.recent EXCEPT !.color = c], "")

SetSize ==
  \E s \in ResolvedSizes :
    BFinish(set_size(BStart, s), "set_size", "", None, s,
            [blast.recent EXCEPT !.size = s], "")

Create ==
  \E name \in ObjectNames, p \in Positions :
    BFinish(VirtualObjectBuilder_create(BStart, StrT(name), PosT(p)), "create",
            name, PosT(p), NOT_SPECIFIED, blast.recent, blast.loaded)

SetNewDescriptor ==
  \E d \in Descriptors :
    BFinish(set_new_descriptor(BStart, d), "set_new_descriptor", "", None, d,
            [blast.recent EXCEPT !.descriptor = d], "")

SetNewColor ==
  \E c \in ResolvedColors \cup RawColors :
    BFinish(set_new_color(BStart, c), "set_new_color", "", None, c,
            [blast.recent EXCEPT !.color = c], "")

SetNewSize ==
  \E s \in ResolvedSizes \cup RawSizes :
    BFinish(set_new_size(BStart, s), "set_new_size", "", None, s,
            [blast.recent EXCEPT !.size = s], "")

SetNewSizeByName ==
  \E n \in SizeNames :
    BFinish(set_new_size_by_name(BStart, n), "set_new_size_by_name", "", None,
            StrV(n), blast.recent, "")

ComplexCreate ==
  \E name \in ObjectNames, p \in DOMAIN prefabricated_positions \cup {"nowhere"} :
    BFinish(ComplexObjectBuilder_create(BStart, StrT(name), StrT(p)),
            "complex_create", name, StrT(p), NOT_SPECIFIED, blast.recent,
            blast.loaded)

LoadFromConfig ==
  \E p \in PrototypeNames :
    LET st == load_from_config(BStart, p)
    IN BFinish(st, "load_from_config", p, None, NOT_SPECIFIED,
               IF p \in DOMAIN prototype_mapping
                 THEN [descriptor |-> prototype_mapping[p].descriptor,
                       color |-> prototype_mapping[p].color,
                       size |-> prototype_mapping[p].size]
                 ELSE blast.recent,
               IF st.err = "none" THEN p ELSE "")


\* What the resolvers return for a description, from the current color table.
Resolving == [colors |-> colors, err |-> "none", ret |-> NOT_SPECIFIED]

\* The keys and the value a client gives to a size's __setitem__ and
\* __delitem__.
SizeKeys == {0}
SizeValues == {99}

\* The sizes a client holds: those the size resolver returns, those of the
\* prototypes, and the one it constructed itself.
HeldSizes ==
  ResolvedSizes \cup {prototype_mapping[p].size : p \in DOMAIN prototype_mapping}
                \cup {Custom}

\* The sizes a client changes: the sizes it holds that still have the
\* dimensions they were constructed with, so that each size is changed at
\* most once.
EditableSizes == HeldSizes \cap {Small, Large}

\* The object self is now the object now: every place that holds self holds
\* the changed object.
Same(v, self, now) == IF v = self THEN now ELSE v

\* Number of calls a client makes in one run on the sizes it holds, on the
\* size resolver's add_size and on the prototype resolver's add_object.
MaxChanges == 1

\* A method of the size object self has run to its return or its exception:
\* the size resolver, the prototypes, the builder, the objects built from it
\* (those handed
\* to create_object and those a facade tracks) and the values the client set
\* last hold the one object.
SizeFinish(st, op, self) ==
  LET now == IF st.err = "none" THEN st.ret ELSE self
  IN /\ ops < MaxChanges
     /\ ops' = ops + 1
     /\ size_mapping' = [n \in DOMAIN size_mapping |->
                          Same(size_mapping[n], self, now)]
     /\ prototype_mapping' = [p \in DOMAIN prototype_mapping |->
                               [prototype_mapping[p] EXCEPT
                                  !.size = Same(@, self, now)]]
     /\ builder' = [builder EXCEPT !.size = Same(@, self, now)]
     /\ created' = [i \in DOMAIN created |->
                      [created[i] EXCEPT !.size = Same(@, self, now)]]
     /\ virtual_objects' = [n \in DOMAIN virtual_objects |->
                             [virtual_objects[n] EXCEPT !.size = Same(@, self, now)]]
     /\ last' = [last EXCEPT !.pre = virtual_objects]
     /\ blast' = [op |-> op, name |-> "", position |-> None, arg |-> self,
                  err |-> st.err, ret |-> NoBuilt, pre |-> builder,
                  recent |-> [blast.recent EXCEPT !.size = Same(@, self, now)],
                  loaded |-> blast.loaded]
     /\ UNCHANGED <<strategy, inherited, calls,
                    external_facing_object_builder, colors, fcall, setup_manager,
                    scall, environment>>

\* The client assigns to a dimension of a size it holds.
SizeSetItem ==
  \E self \in EditableSizes, key \in SizeKeys, value \in SizeValues :
    SizeFinish(VirtualObjectSize_setitem(Resolving, self, key, value),
               "size_setitem", self)

\* The client deletes a dimension of a size it holds.
SizeDelItem ==
  \E self \in EditableSizes, key \in SizeKeys :
    SizeFinish(VirtualObjectSize_delitem(Resolving, self, key),
               "size_delitem", self)

\* The names and the size a client gives to the size resolver's add_size:
\* a registered name and a new one, and the size it constructed.
AddedNames == {SmallName, HugeName}
AddedSizes == {Custom}

\* The client registers a size with the size resolver.  The prototypes, the
\* builder and the objects built keep the size objects they hold, and the
\* last builder call stays the last one.
AddSize ==
  \E name \in AddedNames, size \in AddedSizes :
    LET st == add_size([sizes |-> size_mapping, err |-> "none"], name, size)
    IN /\ ops < MaxChanges
       /\ ops' = ops + 1
       /\ size_mapping' = st.sizes
       /\ UNCHANGED <<virtual_objects, strategy, inherited, calls, last,
                      external_facing_object_builder, builder, created, blast,
                      colors, fcall, setup_manager, scall, prototype_mapping,
                      environment>>

\* The prototypes a client gives to the prototype resolver's add_object: a
\* registered name with another descriptor, color and size, and a new name.
\* The size is named as the size resolver knows it.
AddedPrototypes ==
  {[name |-> "small_red_cube", color |-> Blue, size |-> LargeName,
    descriptor |-> StrV(SphereName)],
   [name |-> "tiny_cube", color |-> Red, size |-> SmallName,
    descriptor |-> StrV(CubeName)]}

\* The client builds a flyweight from a color, the size resolver's size and a
\* descriptor and registers it with the prototype resolver.  The builder and
\* the objects built keep what they hold; the values the client set last and
\* the prototype loaded last stay what they were.
ResolverAddObject ==
  \E a \in AddedPrototypes :
    LET size == get_size(Resolving, StrV(a.size))
        flyweight == ObjectResolverFlyweight(Resolving, a.color, size.ret,
                                             a.descriptor)
        st == MappedObjectResolver_add_object(
                [prototypes |-> prototype_mapping, err |-> "none"],
                a.name, flyweight.ret)
    IN /\ ops < MaxChanges
       /\ ops' = ops + 1
       /\ size.err = "none"
       /\ flyweight.err = "none"
       /\ prototype_mapping' = st.prototypes
       /\ blast' = [op |-> "resolver_add_object", name |-> a.name,
                    position |-> None, arg |-> a.descriptor, err |-> st.err,
                    ret |-> NoBuilt, pre |-> builder, recent |-> blast.recent,
                    loaded |-> blast.loaded]
       /\ UNCHANGED <<virtual_objects, strategy, inherited, calls, last,
                      external_facing_object_builder, builder, created,
                      colors, fcall, setup_manager, scall, size_mapping,
                      environment>>

NextBuilder ==
  \/ AddSize
  \/ ResolverAddObject
  \/ SizeSetItem
  \/ SizeDelItem
  \/ SetDescriptor
  \/ SetColor
  \/ SetSize
  \/ Create
  \/ SetNewDescriptor
  \/ SetNewColor
  \/ SetNewSize
  \/ SetNewSizeByName
  \/ ComplexCreate
  \/ LoadFromConfig

SpecBuilder == InitBuilder /\ [][NextBuilder]_vars

(***************************************************************************)
(* The state machine of the colors: a client constructs colors and calls   *)
(* the color resolution strategy.                                          *)
(***************************************************************************)
InitColor ==
  /\ environment = Patched
  /\ virtual_objects = EmptyTable
  /\ strategy = [virtual_objects |-> EmptyTable, grabbed |-> None, facing |-> None]
  /\ inherited = "none"
  /\ calls = <<>>
  /\ last = [op |-> "init", target |-> None, position |-> None,
             affector |-> NoAffector, update |-> FALSE, err |-> "none",
             ret |-> None, retList |-> <<>>, pre |-> EmptyTable]
  /\ ops = 0
  /\ external_facing_object_builder = None
  /\ builder = NewBuilder
  /\ created = <<>>
  /\ blast = NoBuilderCall
  /\ colors = EmptyColors
  /\ fcall = NoCall
  /\ setup_manager = SetupManager("DictionarySet", EmptySetups)
  /\ size_mapping = TestSizes
  /\ prototype_mapping = TestPrototypes
  /\ scall = NoSetupCall

CStart == [colors |-> colors, err |-> "none", ret |-> NOT_SPECIFIED]

\* The call has run to its return or to its exception.
CFinish(st, op, key, desc, nums) ==
  /\ colors' = st.colors
  /\ fcall' = [NoCall EXCEPT !.op = op, !.key = key, !.desc = desc,
                             !.nums = nums, !.err = st.err,
                             !.ret = IF st.err = "none" THEN st.ret
                                                        ELSE NOT_SPECIFIED,
                             !.pre = colors]
  /\ UNCHANGED <<virtual_objects, strategy, inherited, calls, last, ops,
                 external_facing_object_builder, builder, created, blast,
                 setup_manager, scall,
                 size_mapping, prototype_mapping, environment>>

\* Components a client passes to VirtualObjectColor: the ends of the range,
\* their outer neighbours and a value inside.
ColorArgs == {ColorMin - 1, ColorMin, 17, ColorMax, ColorMax + 1}

\* Hex strings are built from pairs of characters: upper case digits, decimal
\* digits, lower case digits and a pair that is not hexadecimal.
Pairs == {<<"F", "F">>, <<"1", "1">>, <<"f", "f">>, <<"0", "G">>}

\* Largest number of pairs a hex string has beyond the three of #RRGGBB.
MaxExtraPairs == 1

RECURSIVE PairSeqs(_)
PairSeqs(n) ==
  IF n = 0 THEN {<<>>} ELSE {p \o s : p \in Pairs, s \in PairSeqs(n - 1)}

\* '#' followed by two, three or more pairs.
HexDescriptions ==
  UNION {{StrV(<<"#">> \o body) : body \in PairSeqs(n)} :
           n \in ((HexDigits \div 2) - 1)..((HexDigits \div 2) + MaxExtraPairs)}

\* A well-formed hex string registered as the name of a color.
HashName == <<"#", "F", "F", "1", "1", "F", "F">>

\* The seed of the specification's example, and its upper case spelling.
SeedLower == StrV(<<"#", "f", "f", "1", "1", "0", "0">>)
SeedUpper == StrV(<<"#", "F", "F", "1", "1", "0", "0">>)

\* The descriptions a client passes to get_color.
Descriptions ==
  HexDescriptions \cup
  {SeedLower, SeedUpper, StrV(<<"#", "0", "0", "1", "1", "A", "2">>),
   StrV(<<"#", "F", "F", "1", "1", "0", "0", "A">>), StrV(<<"#">>),
   StrV(RedName), StrV(BlueName), StrV(<<>>),
   DictV({"red", "green", "blue"}, <<100, 102, 101>>),
   DictV({"red", "green"}, <<100, 102, 101>>),
   DictV({"red", "green", "blue"}, <<100, 102, 300>>),
   ListV(<<1, 2, 3>>), Red}

NewColor ==
  \E r \in ColorArgs, g \in ColorArgs, b \in ColorArgs :
    CFinish(VirtualObjectColor_init(CStart, r, g, b), "VirtualObjectColor",
            <<>>, NOT_SPECIFIED, <<r, g, b>>)

GetColor ==
  \E d \in Descriptions :
    CFinish(get_color(CStart, d), "get_color", <<>>, d, <<>>)

AddColor ==
  \E a \in {<<RedName, SeedLower>>, <<RedName, SeedUpper>>,
            <<HashName, ColorV(<<1, 2, 3>>)>>} :
    CFinish(add_color(CStart, a[1], a[2]), "add_color", a[1], a[2], <<>>)

NextColor ==
  \/ NewColor
  \/ GetColor
  \/ AddColor

SpecColor == InitColor /\ [][NextColor]_vars

(***************************************************************************)
(* The state machine of the positions: a client calls the position         *)
(* factory.                                                                *)
(***************************************************************************)
InitPosition ==
  /\ environment \in Environments
  /\ virtual_objects = EmptyTable
  /\ strategy = [virtual_objects |-> EmptyTable, grabbed |-> None, facing |-> None]
  /\ inherited = "none"
  /\ calls = <<>>
  /\ last = [op |-> "init", target |-> None, position |-> None,
             affector |-> NoAffector, update |-> FALSE, err |-> "none",
             ret |-> None, retList |-> <<>>, pre |-> EmptyTable]
  /\ ops = 0
  /\ external_facing_object_builder = None
  /\ builder = NewBuilder
  /\ created = <<>>
  /\ blast = NoBuilderCall
  /\ colors = EmptyColors
  /\ fcall = NoCall
  /\ setup_manager = SetupManager("DictionarySet", EmptySetups)
  /\ size_mapping = TestSizes
  /\ prototype_mapping = TestPrototypes
  /\ scall = NoSetupCall

PStart == [err |-> "none", ret |-> None]

\* The call has run to its return or to its exception.
PFinish(st, op, name, over) ==
  /\ fcall' = [NoCall EXCEPT !.op = op, !.name = name, !.over = over,
                             !.err = st.err,
                             !.pos = IF st.err = "none" THEN st.ret.pos ELSE <<>>]
  /\ UNCHANGED <<virtual_objects, strategy, inherited, calls, last, ops,
                 external_facing_object_builder, builder, created, blast, colors,
                 setup_manager, scall,
                 size_mapping, prototype_mapping, environment>>

\* The components a client supplies: any of them as 0, or one of them as 5.
Overrides ==
  [1..6 -> {DEFAULT, <<0>>}] \cup {[NoOverrides EXCEPT ![i] = <<5>>] : i \in 1..6}

CreatePrefabricated ==
  \E name \in DOMAIN prefabricated_positions \cup {"nowhere"}, over \in Overrides :
    PFinish(create_prefabricated(PStart, name, over), "create_prefabricated",
            name, over)

\* The factory the constructor builds for the tests' table, and one with
\* other default rotations.
Factories ==
  {VirtualObjectPositionFactory(DEFAULT_ROLL, DEFAULT_PITCH, DEFAULT_YAW,
                                prefabricated_positions),
   VirtualObjectPositionFactory(1, 2, 3, prefabricated_positions)}

\* Translations and rotations a client passes to create_position_relative.
Deltas == {<<1, 1, 1>>, <<0, 0, 5>>}
Rotations == {<<DEFAULT, DEFAULT, DEFAULT>>, <<<<0>>, DEFAULT, DEFAULT>>,
              <<<<5>>, <<5>>, <<5>>>>}

CreatePositionRelative ==
  \E self \in Factories, base \in Positions, d \in Deltas, rotation \in Rotations :
    LET st == create_position_relative(PStart, self, base, d[1], d[2], d[3],
                                       rotation)
    IN /\ fcall' = [NoCall EXCEPT !.op = "create_position_relative",
                                  !.factory = self, !.base = base, !.nums = d,
                                  !.rotation = rotation, !.err = st.err,
                                  !.pos = IF st.err = "none" THEN st.ret.pos
                                                             ELSE <<>>]
       /\ UNCHANGED <<virtual_objects, strategy, inherited, calls, last, ops,
                      external_facing_object_builder, builder, created, blast,
                      colors, setup_manager, scall,
                 size_mapping, prototype_mapping, environment>>

\* Configuration entries: the tests' small_offset (no rotation) and
\* large_offset (0.1, 0.2, 0.3 scaled), an entry with a pitch only, and
\* entries that lack x, y or z.
ConfigEntries ==
  {<<<<1>>, <<2>>, <<3>>, <<>>, <<>>, <<>>>>,
   <<<<4>>, <<5>>, <<6>>, <<1>>, <<2>>, <<3>>>>,
   <<<<4>>, <<5>>, <<6>>, <<>>, <<2>>, <<>>>>,
   <<<<>>, <<5>>, <<6>>, <<1>>, <<>>, <<>>>>,
   <<<<1>>, <<>>, <<3>>, <<>>, <<>>, <<3>>>>,
   <<<<1>>, <<2>>, <<>>, <<>>, <<>>, <<>>>>}

ConfigNames == {"small_offset", "large_offset"}

\* The data a client passes to create_factory: dictionaries of entries, and
\* a value that is not a dictionary.
ConfigData ==
  {[kind |-> "dict", entries |-> e] :
     e \in UNION {[S -> ConfigEntries] : S \in SUBSET ConfigNames}}
  \cup {[kind |-> "list", entries |-> EmptyEntries]}

CreateFactory ==
  \E data \in ConfigData :
    \E names \in KeyOrders(DOMAIN data.entries) :
      LET st == create_factory(PStart, data, names)
      IN /\ fcall' = [NoCall EXCEPT !.op = "create_factory", !.data = data,
                                    !.err = st.err,
                                    !.factory = IF st.err = "none" THEN st.ret
                                                                   ELSE NoFactory]
         /\ UNCHANGED <<virtual_objects, strategy, inherited, calls, last, ops,
                        external_facing_object_builder, builder, created, blast,
                        colors, setup_manager, scall,
                 size_mapping, prototype_mapping, environment>>

NextPosition ==
  \/ CreatePrefabricated
  \/ CreatePositionRelative
  \/ CreateFactory

SpecPosition == InitPosition /\ [][NextPosition]_vars

(***************************************************************************)
(* The state machine for the setup manager: a client adds setups to a      *)
(* manager and gets them, and has the factory build managers from          *)
(* configuration data.                                                     *)
(***************************************************************************)
InitSetup ==
  /\ environment = Patched
  /\ virtual_objects = EmptyTable
  /\ strategy = [virtual_objects |-> EmptyTable, grabbed |-> None, facing |-> None]
  /\ inherited \in ConstructionChoices
  /\ calls = <<>>
  /\ last = [op |-> "init", target |-> None, position |-> None,
             affector |-> NoAffector, update |-> FALSE, err |-> "none",
             ret |-> None, retList |-> <<>>, pre |-> EmptyTable]
  /\ ops = 0
  /\ external_facing_object_builder = None
  /\ builder = NewBuilder
  /\ created = <<>>
  /\ blast = NoBuilderCall
  /\ colors = TestColors
  /\ fcall = NoCall
  /\ \E store \in Stores : setup_manager = SetupManager(store, EmptySetups)
  /\ size_mapping = TestSizes
  /\ prototype_mapping = TestPrototypes
  /\ scall = NoSetupCall

SStart == [table |-> setup_manager.setups, store |-> setup_manager.store,
           b |-> builder, created |-> <<>>, colors |-> colors,
           objs |-> <<>>, err |-> "none", ret |-> NoBuilt, setup |-> NoSetup,
           manager |-> NoManager]

\* The call has run to its return or to its exception.  first follows the
\* calls: it holds, for each name, the setup of the first add under it.
SFinish(st, op, name, setup, data) ==
  /\ setup_manager' = [setup_manager EXCEPT !.setups = st.table]
  /\ builder' = st.b
  /\ created' = st.created
  /\ scall' = [op |-> op, name |-> name, setup |-> setup, data |-> data,
               err |-> st.err,
               ret |-> IF st.err = "none" THEN st.setup ELSE NoSetup,
               manager |-> IF st.err = "none" THEN st.manager ELSE NoManager,
               pre |-> setup_manager.setups,
               first |-> IF op = "add" /\ name \notin DOMAIN scall.first
                           THEN Put(scall.first, name, setup) ELSE scall.first]
  /\ UNCHANGED <<virtual_objects, strategy, inherited, calls, last, ops,
                 external_facing_object_builder, blast, colors, fcall,
                 size_mapping, prototype_mapping, environment>>

\* The names the tests register setups under, and the setups a client adds:
\* one per name, and a second one that carries the first name.
SetupNames == {"setup_1", "setup_2"}
Setups ==
  {Setup(n, <<>>, "robot_state", "robot") : n \in SetupNames}
  \cup {Setup("setup_1", <<>>, "other_state", "robot")}

Add ==
  \E name \in SetupNames, setup \in Setups :
    SFinish(SetupManager_add(SStart, name, setup), "add", name, setup, EmptyData)

Get ==
  \E name \in SetupNames \cup {"nowhere"} :
    SFinish(SetupManager_get(SStart, name), "get", name, NoSetup, EmptyData)

\* Object entries of the configuration: the tests' inline description and
\* prototype name, an unregistered prototype name, and a list.
ObjectEntries ==
  {DictEntry(StrV(RedName), "origin", StrV(CubeName), StrV(SmallName)),
   StrEntry("large_blue_sphere"), StrEntry("nowhere"), ListEntry}

ObjectKeys == {"test_block", "cube1"}

\* The configurations of one setup, object name -> entry: no object, one
\* object of each kind, and two objects of which the first is inline and
\* the second names a prototype or is inline too.
SetupData ==
  {f \in UNION {[S -> ObjectEntries] : S \in SUBSET ObjectKeys} :
     "cube1" \in DOMAIN f =>
       /\ "test_block" \in DOMAIN f
       /\ f["test_block"].kind = "dict"
       /\ f["cube1"].kind \in {"dict", "str"}}

\* The data a client passes to create_setup_manager, setup name -> setup:
\* no setup, one setup, and two setups of one object or none.
SetupManagerData ==
  {d \in UNION {[S -> SetupData] : S \in SUBSET SetupNames} :
     DOMAIN d = SetupNames =>
       \A s \in SetupNames : DOMAIN d[s] \subseteq {"test_block"}}

\* The orders in which the setups of data may list their keys.
ObjectOrders(data) ==
  {o \in [DOMAIN data -> UNION {KeyOrders(S) : S \in SUBSET ObjectKeys}] :
     \A s \in DOMAIN data : o[s] \in KeyOrders(DOMAIN data[s])}

CreateSetupManager ==
  \E data \in SetupManagerData :
    \E names \in KeyOrders(DOMAIN data), orders \in ObjectOrders(data) :
      SFinish(create_setup_manager(SStart, data, names, orders),
              "create_setup_manager", "", NoSetup, data)

NextSetup ==
  \/ Add
  \/ Get
  \/ CreateSetupManager

SpecSetup == InitSetup /\ [][NextSetup]_vars

(***************************************************************************)
(* A state machine for the external object builder: a client configures    *)
(* an ExternalObjectBuilder it constructed around a facade and creates     *)
(* objects with it; a ComplexObjectBuilder around the same inner builder   *)
(* loads prototypes.                                                       *)
(***************************************************************************)
InitExternal == InitBuilder

EStart == [table |-> virtual_objects, b |-> builder, created |-> <<>>,
           colors |-> colors, err |-> "none", ret |-> NoBuilt]

\* The builder method has run to its return or to its exception.
EFinish(st, op, name, position, arg) ==
  /\ virtual_objects' = st.table
  /\ builder' = st.b
  /\ created' = st.created
  /\ blast' = [NoBuilderCall EXCEPT
                 !.op = op, !.name = name, !.position = position, !.arg = arg,
                 !.err = st.err,
                 !.ret = IF st.err = "none" /\ op = "external_create"
                           THEN st.ret ELSE NoBuilt,
                 !.pre = builder]
  /\ last' = [last EXCEPT !.pre = virtual_objects]
  /\ UNCHANGED <<strategy, inherited, calls, ops, external_facing_object_builder,
                 colors, fcall, setup_manager, scall,
                 size_mapping, prototype_mapping, environment>>

\* The client sets a descriptor other than the prototype's.
ExternalSetNewDescriptor ==
  \E d \in {StrV(SphereName)} :
    EFinish(External_set_new_descriptor(EStart, d), "external_set_new_descriptor",
            "", None, d)

\* The external builder hands the inner one what it is given: a color or
\* size, or a description of one.
ExternalSetNewColor ==
  \E c \in {Red, StrV(RedName)} :
    EFinish(External_set_new_color(EStart, c), "external_set_new_color",
            "", None, c)

ExternalSetNewSize ==
  \E s \in {size_mapping[SmallName], StrV(SmallName)} :
    EFinish(External_set_new_size(EStart, s), "external_set_new_size",
            "", None, s)

ExternalSetNewSizeByName ==
  \E n \in {SmallName} :
    EFinish(External_set_new_size_by_name(EStart, n),
            "external_set_new_size_by_name", "", None, StrV(n))

\* Positions a client passes to create: names, a position, and no position.
ExternalPositions == {StrT("origin"), StrT("nowhere"), PosT(Offset), None}

ExternalCreate ==
  \E name \in ObjectNames, p \in ExternalPositions :
    EFinish(External_create(EStart, StrT(name), p), "external_create", name, p,
            NOT_SPECIFIED)

\* The prototype names a client loads: a registered one, one a client may
\* register and an unknown one.
ExternalPrototypeNames == {"small_red_cube", "tiny_cube", "nowhere"}

ExternalLoadFromConfig ==
  \E p \in ExternalPrototypeNames :
    EFinish(External_load_from_config(EStart, p), "external_load_from_config",
            p, None, NOT_SPECIFIED)

\* ComplexObjectBuilder.load_from_config on the same inner builder.
ComplexLoadFromConfig ==
  \E p \in ExternalPrototypeNames :
    EFinish(load_from_config(EStart, p), "load_from_config", p, None,
            NOT_SPECIFIED)

NextExternal ==
  \/ AddSize
  \/ ResolverAddObject
  \/ SizeSetItem
  \/ SizeDelItem
  \/ ExternalSetNewDescriptor
  \/ ExternalSetNewColor
  \/ ExternalSetNewSize
  \/ ExternalSetNewSizeByName
  \/ ExternalCreate
  \/ ExternalLoadFromConfig
  \/ ComplexLoadFromConfig

SpecExternal == InitExternal /\ [][NextExternal]_vars

(***************************************************************************)
(* Properties                                                              *)
(***************************************************************************)
\* The name a target argument stands for.
TargetName(t) == IF t.kind = "str" THEN t.str ELSE t.obj.name

\* The position a position argument stands for (a name is a prefabricated one).
RequestedPosition(p) ==
  IF p.kind = "str" THEN prefabricated_positions[p.str] ELSE p.pos

\* The strategy calls of the last operation other than get_default_affector.
ManipulationCalls == SelectSeq(calls, LAMBDA c : c.op # "get_default_affector")

\* The last call handed a tracked object, or its name, to the facade.
TrackedTarget ==
  /\ last.target.kind \in {"str", "VirtualObject"}
  /\ TargetName(last.target) \in DOMAIN last.pre

\* The last call was a put of a tracked target to a position or to the name
\* of a prefabricated one, with the default affector or none, on a strategy
\* that implements every operation.
PutOfTracked ==
  /\ last.op = "put"
  /\ TrackedTarget
  /\ inherited = "none"
  /\ last.affector \in {NoAffector, default_affector}
  /\ \/ last.position.kind = "VirtualObjectPosition"
     \/ /\ last.position.kind = "str"
        /\ last.position.str \in DOMAIN prefabricated_positions

\* C1: a delete of a tracked target, given as the object or as its name,
\* reaches the backend's delete, and when it succeeds the target's name is
\* no longer in the tracking table while every other tracked name still is.
C1_DeleteDeregisters ==
  (last.op = "delete" /\ TrackedTarget)
  => /\ \E i \in 1..Len(calls) : calls[i].op = "delete"
     /\ last.err = "none" =>
          /\ TargetName(last.target) \notin DOMAIN virtual_objects
          /\ \A n \in DOMAIN last.pre \ {TargetName(last.target)} :
               n \in DOMAIN virtual_objects /\ virtual_objects[n] = last.pre[n]

\* C2: put calls the strategy's grab, face and release, once each and in that
\* order, all with the same affector (the default one when none was given),
\* and makes no other manipulation call.
C2_PutCallsGrabFaceRelease ==
  PutOfTracked
  => LET a == IF last.affector = NoAffector THEN default_affector
                                            ELSE last.affector
     IN ManipulationCalls =
          << [op |-> "grab", affector |-> a, err |-> "none"],
             [op |-> "face", affector |-> a, err |-> "none"],
             [op |-> "release", affector |-> a, err |-> "none"] >>

\* C3: when a step of put fails, put raises that failure and runs no later
\* step (a failed grab: no face, no release; a failed face: no release), and
\* what the earlier steps did stays done.
C3_PutStopsAtFailure ==
  last.op = "put"
  => LET m == ManipulationCalls
     IN /\ Len(m) <= 3
        /\ \A i \in 1..Len(m) : m[i].op = <<"grab", "face", "release">>[i]
        /\ \A i \in 1..Len(m) :
             m[i].err # "none" => (i = Len(m) /\ last.err = m[i].err)
        /\ last.err # "none" => (m = <<>> \/ m[Len(m)].err # "none")
        /\ (Len(m) >= 2 /\ m[Len(m)].err # "none")
             => strategy.grabbed = last.target
        /\ (Len(m) = 3 /\ m[3].err # "none")
             => strategy.facing = last.position

\* The grab of put failed on a tracked object after the default affector had
\* been asked for: put raised, and neither face nor release was called.
C3_Witness ==
  /\ last.op = "put" /\ last.err = "NameError"
  /\ last.target.kind = "VirtualObject"
  /\ TargetName(last.target) \in DOMAIN last.pre
  /\ Len(calls) = 1
  /\ calls[1].op = "get_default_affector"
  /\ ManipulationCalls = <<>>

\* C4: after put(obj, name) with name a prefabricated position, the
\* strategy's facing is that prefabricated position (a position, not the
\* name).
C4_PutFacesResolvedPosition ==
  (PutOfTracked /\ last.position.kind = "str")
  => strategy.facing = PosT(RequestedPosition(last.position))

\* C5: put returns the strategy's current snapshot of the target and leaves
\* that snapshot in the tracking table under the target's name.
C5_PutReturnsRefreshedTarget ==
  PutOfTracked
  => LET n == TargetName(last.target)
     IN /\ last.ret.kind = "VirtualObject"
        /\ n \in DOMAIN strategy.virtual_objects
        /\ last.ret.obj = strategy.virtual_objects[n]
        /\ n \in DOMAIN virtual_objects
        /\ virtual_objects[n] = last.ret.obj

\* C6: after a successful update of a tracked object the tracking table holds,
\* under the target's name, the strategy's new state, whose position is the
\* requested one.
C6_UpdateReplacesEntry ==
  (last.op = "update" /\ last.err = "none"
     /\ TargetName(last.target) \in DOMAIN last.pre)
  => LET n == TargetName(last.target)
     IN /\ n \in DOMAIN virtual_objects
        /\ virtual_objects[n].position = RequestedPosition(last.position)
        /\ n \in DOMAIN strategy.virtual_objects
        /\ virtual_objects[n] = strategy.virtual_objects[n]

\* C7: get_object(name, update=True) on a tracked name asks the strategy's
\* refresh, stores what it returns under the name and returns it; on an
\* untracked name it raises not-found and calls nothing.
C7_GetObjectUpdateRefreshes ==
  (last.op = "get_object" /\ last.update)
  => LET n == last.target.str
     IN IF n \in DOMAIN last.pre
          THEN /\ last.err = "none"
               /\ \E i \in 1..Len(calls) : calls[i].op = "refresh"
               /\ last.ret.kind = "VirtualObject"
               /\ n \in DOMAIN virtual_objects
               /\ virtual_objects[n] = last.ret.obj
          ELSE last.err = "KeyError" /\ calls = <<>>

\* C8: get_objects(update=True) completes without error for any table,
\* returns one snapshot per tracked name and leaves each returned snapshot as
\* the entry of its name.
C8_GetObjectsUpdateCompletes ==
  (last.op = "get_objects" /\ last.update)
  => /\ last.err = "none"
     /\ Len(last.retList) = Cardinality(DOMAIN last.pre)
     /\ {last.retList[i].name : i \in 1..Len(last.retList)} = DOMAIN last.pre
     /\ DOMAIN virtual_objects = DOMAIN last.pre
     /\ \A i \in 1..Len(last.retList) :
          virtual_objects[last.retList[i].name] = last.retList[i]

\* C9: once an object has been added, get_object of its name (update left at
\* its default, True) returns an object of that name.
C9_GetObjectAfterAdd ==
  (last.op = "get_object" /\ last.update /\ last.target.str \in DOMAIN last.pre)
  => /\ last.err = "none"
     /\ last.ret.kind = "VirtualObject"
     /\ last.ret.obj.name = last.target.str

\* C10: face hands the strategy a position: the target itself when it is a
\* position, the object's position when it is an object, for a string the
\* prefabricated position of that name, else the position of the tracked
\* object of that name; a string naming neither fails and the strategy's face
\* is not called.
C10_FaceResolvesTarget ==
  last.op = "face"
  => LET t == last.target
         facedNothing == \A i \in 1..Len(calls) : calls[i].op # "face"
     IN IF t.kind = "VirtualObjectPosition"
          THEN last.err = "none" => strategy.facing = t
        ELSE IF t.kind = "VirtualObject"
          THEN last.err = "none" => strategy.facing = PosT(t.obj.position)
        ELSE IF t.str \in DOMAIN prefabricated_positions
          THEN last.err = "none"
                 => strategy.facing = PosT(RequestedPosition(t))
        ELSE IF t.str \in DOMAIN last.pre
          THEN last.err = "none"
                 => strategy.facing = PosT(last.pre[t.str].position)
        ELSE last.err # "none" /\ facedNothing


(***************************************************************************)
(* Properties of the builders (specification SpecBuilder)                  *)
(***************************************************************************)
\* The object a create call with the pending values b has to build.
Built(b) ==
  VirtualObject(blast.name,
                IF blast.position.kind = "VirtualObjectPosition"
                  THEN blast.position.pos
                  ELSE prefabricated_positions[blast.position.str],
                b.descriptor, b.color, b.size)

\* C11: VirtualObjectBuilder.create fails with a not-configured error when
\* descriptor, color or size was never set, reporting the descriptor before
\* the color and the color before the size; then create_object is not called
\* and the pending values are unchanged.  When all three are set, create_object
\* is called exactly once, with the new object.
C11_CreateNeedsConfiguration ==
  blast.op = "create" =>
    LET set == blast.recent
        missing == IF set.descriptor = NOT_SPECIFIED THEN "AttributeError: descriptor"
                   ELSE IF set.color = NOT_SPECIFIED THEN "AttributeError: color"
                   ELSE IF set.size = NOT_SPECIFIED THEN "AttributeError: size"
                   ELSE "none"
    IN IF missing # "none"
         THEN /\ blast.err = missing
              /\ created = <<>>
              /\ builder = blast.pre
         ELSE /\ created = <<Built(set)>>
              /\ blast.err \in {"none", "NotImplementedError"}
              /\ blast.err = "none" => blast.ret = created[1]

\* A create call on a builder whose descriptor is set and whose color and size
\* are not: the color is the field reported.
C11_Witness ==
  /\ blast.op = "create"
  /\ blast.recent.descriptor # NOT_SPECIFIED
  /\ blast.recent.color = NOT_SPECIFIED
  /\ blast.recent.size = NOT_SPECIFIED
  /\ blast.err = "AttributeError: color"
  /\ created = <<>>

\* C12: a successful create(name, position) returns an object with that name
\* and position and the descriptor, color and size most recently set; create
\* leaves the pending values as they were.
C12_CreateUsesLatestValues ==
  blast.op = "create" /\ blast.err = "none" =>
    /\ blast.ret = Built(blast.recent)
    /\ builder = blast.pre

\* The tests' large_red_sphere: descriptor and size were set again after an
\* earlier object was created, the color carried over.
C12_Witness ==
  /\ blast.op = "create"
  /\ blast.err = "none"
  /\ blast.ret = VirtualObject("cube1", Offset, StrV(SphereName), Red, Large)
  /\ builder = blast.pre

\* C13: load_from_config(p) for a registered prototype p followed by
\* create(n, positionName) returns (with the dummy construction strategy) an
\* object named n with p's descriptor, color and size at the prefabricated
\* position of that name.  The descriptor, color and size are those of the
\* flyweight the prototype resolver held for p when load_from_config ran
\* (blast.recent after a load), the size being the object that flyweight
\* holds: whatever the size resolver binds the prototype's size name to now,
\* and whatever the prototype resolver binds p to after the load.
C13_LoadThenCreate ==
  /\ blast.op = "load_from_config" /\ blast.name \in DOMAIN prototype_mapping
       => /\ blast.err = "none"
          /\ blast.loaded = blast.name
          /\ builder.descriptor = prototype_mapping[blast.name].descriptor
          /\ builder.color = prototype_mapping[blast.name].color
          /\ builder.size = prototype_mapping[blast.name].size
          /\ blast.recent = [descriptor |-> prototype_mapping[blast.name].descriptor,
                             color |-> prototype_mapping[blast.name].color,
                             size |-> prototype_mapping[blast.name].size]
  /\ blast.op = "complex_create" /\ blast.loaded # ""
       /\ blast.position.str \in DOMAIN prefabricated_positions
       => IF inherited = "none"
            THEN /\ blast.err = "none"
                 /\ blast.ret = Built(blast.recent)
            ELSE /\ blast.err = "NotImplementedError"
                 /\ created = <<Built(blast.recent)>>

\* The scenario of the specification: small_red_cube loaded, then
\* create("cube1", "origin"), here after the size resolver's name small was
\* bound to another size: the object has the size the prototype holds.
C13_Witness ==
  /\ blast.op = "complex_create"
  /\ blast.loaded = "small_red_cube"
  /\ blast.name = "cube1"
  /\ blast.position = StrT("origin")
  /\ size_mapping[SmallName] = Custom
  /\ blast.ret = VirtualObject("cube1", Origin, StrV(CubeName), Red, Small)

\* C14: set_new_size_by_name(name) fails with a usage error and leaves the
\* pending size unchanged while no descriptor has been set on the complex
\* builder; once one has been set, it sets the pending size to the size
\* resolver's value for name.
C14_SizeByNameNeedsDescriptor ==
  blast.op = "set_new_size_by_name" =>
    IF ~blast.pre.descriptor_set
      THEN /\ blast.err = "ValueError"
           /\ builder.size = blast.pre.size
      ELSE LET resolved == get_size(Resolving, blast.arg)
           IN resolved.err = "none" =>
                /\ blast.err = "none"
                /\ builder.size = resolved.ret

\* C15: set_new_color(d) and set_new_size(d) with a raw description d leave
\* the inner builder as the call with the resolver's value for d does; an
\* already resolved VirtualObjectColor / VirtualObjectSize is passed through.
C15_SettersResolveDescriptions ==
  /\ blast.op = "set_new_color" =>
        LET resolved == IF blast.arg.kind = "VirtualObjectColor"
                          THEN [Resolving EXCEPT !.ret = blast.arg]
                          ELSE get_color(Resolving, blast.arg)
        IN resolved.err = "none" =>
             /\ blast.err = "none"
             /\ builder = [blast.pre EXCEPT !.color = resolved.ret]
  /\ blast.op = "set_new_size" =>
        LET resolved == IF blast.arg.kind = "VirtualObjectSize"
                          THEN [Resolving EXCEPT !.ret = blast.arg]
                          ELSE get_size(Resolving, blast.arg)
        IN resolved.err = "none" =>
             /\ blast.err = "none"
             /\ builder = [blast.pre EXCEPT !.size = resolved.ret]

(***************************************************************************)
(* Properties of the facade's builder (specification Spec)                 *)
(***************************************************************************)
\* C16: every get_object_builder() call returns the facade's one builder,
\* constructed by the first call and memoized.
C16_BuilderMemoized ==
  last.op = "get_object_builder" =>
    /\ last.err = "none"
    /\ last.ret = BuilderT
    /\ external_facing_object_builder = last.ret

(***************************************************************************)
(* Properties of the colors (specification SpecColor)                      *)
(***************************************************************************)
\* The components of a color are all in [0, 255].
InRange(color) == \A i \in 1..3 : color.nums[i] >= 0 /\ color.nums[i] <= 255

\* C17: VirtualObjectColor(r, g, b) succeeds exactly when r, g and b are in
\* [0, 255], and then get_red, get_green, get_blue return r, g, b; otherwise
\* it fails with a validation error.  No color with a component out of range
\* exists: not the one returned, and none in the resolver's table.
C17_ColorComponentsInRange ==
  /\ fcall.op = "VirtualObjectColor" =>
        IF \A i \in 1..3 : fcall.nums[i] >= 0 /\ fcall.nums[i] <= 255
          THEN /\ fcall.err = "none"
               /\ fcall.ret.kind = "VirtualObjectColor"
               /\ <<get_red(fcall.ret), get_green(fcall.ret), get_blue(fcall.ret)>>
                    = fcall.nums
          ELSE /\ fcall.err \in ValueErrors
               /\ fcall.ret = NOT_SPECIFIED
  /\ fcall.ret.kind = "VirtualObjectColor" => InRange(fcall.ret)
  /\ \A n \in DOMAIN colors : InRange(colors[n])

\* A color built from the two ends of the range and a value between them.
C17_Witness ==
  /\ fcall.op = "VirtualObjectColor"
  /\ fcall.nums = <<0, 255, 17>>
  /\ fcall.err = "none"
  /\ get_red(fcall.ret) = 0 /\ get_green(fcall.ret) = 255 /\ get_blue(fcall.ret) = 17

\* Hexadecimal digits in either case.
AnyCaseHexChars == RegexHexChars \cup {"a", "b", "c", "d", "e", "f"}

\* chars is '#' followed by exactly six hexadecimal digits of either case.
IsHexColor(chars) ==
  /\ Len(chars) = 7
  /\ chars[1] = "#"
  /\ \A i \in 2..7 : chars[i] \in AnyCaseHexChars

\* The color '#RRGGBB' stands for.
HexColor(chars) ==
  ColorV(<<HexPair(chars, 2), HexPair(chars, 4), HexPair(chars, 6)>>)

\* C18: resolving '#RRGGBB' with hexadecimal digits of either case yields the
\* color (RR, GG, BB); a resolver seeded with "red" -> "#ff1100" resolves
\* "red" to (255, 17, 0).
C18_HexEitherCase ==
  /\ fcall.op = "get_color" /\ fcall.desc.kind = "str"
       /\ IsHexColor(fcall.desc.chars)
       => fcall.err = "none" /\ fcall.ret = HexColor(fcall.desc.chars)
  /\ fcall.op = "add_color" /\ fcall.key = RedName /\ fcall.desc = SeedLower
       => /\ fcall.err = "none"
          /\ get_color(CStart, StrV(RedName)).ret = ColorV(<<255, 17, 0>>)

\* C19: a string starting with '#' is parsed as hex, never looked up as a
\* name, and fails with a validation error unless it is '#' followed by
\* exactly six hex digits; any other string resolves to the color registered
\* under it or fails with the unknown-name error.
C19_HexOrName ==
  fcall.op = "get_color" /\ fcall.desc.kind = "str" =>
    LET chars == fcall.desc.chars
    IN IF chars # <<>> /\ chars[1] = "#"
         THEN IF IsHexColor(chars)
                THEN fcall.err = "none" => fcall.ret = HexColor(chars)
                ELSE fcall.err \in ValueErrors
         ELSE IF chars \in DOMAIN fcall.pre
                THEN fcall.err = "none" /\ fcall.ret = fcall.pre[chars]
                ELSE fcall.err = "ValueError: unknown name"

(***************************************************************************)
(* Properties of the positions (specification SpecPosition)                *)
(***************************************************************************)
\* C20: create_prefabricated(name, overrides) returns, for a registered name,
\* a position in which every supplied component (a supplied 0 included) has
\* the supplied value and every other component is the prefabricated
\* position's; this holds after any earlier calls, so the prefabricated
\* position is unchanged by them.  An unregistered name fails with ValueError.
C20_PrefabricatedOverrides ==
  fcall.op = "create_prefabricated" =>
    IF fcall.name \in {"origin", "offset"}
      THEN /\ fcall.err = "none"
           /\ \A i \in 1..6 :
                fcall.pos[i] = IF fcall.over[i] = <<>>
                                 THEN (IF fcall.name = "origin" THEN Origin
                                                                ELSE Offset)[i]
                                 ELSE fcall.over[i][1]
      ELSE fcall.err = "ValueError" /\ fcall.pos = <<>>

\* C21: create_position_relative(base, dx, dy, dz) with no rotation given
\* returns the position (base.x + dx, base.y + dy, base.z + dz) with the
\* factory's default roll, pitch and yaw.
C21_RelativeUsesDefaultRotation ==
  fcall.op = "create_position_relative"
    /\ fcall.rotation = <<DEFAULT, DEFAULT, DEFAULT>> =>
      /\ fcall.err = "none"
      /\ fcall.pos = <<fcall.base[1] + fcall.nums[1], fcall.base[2] + fcall.nums[2],
                       fcall.base[3] + fcall.nums[3], fcall.factory.default_roll,
                       fcall.factory.default_pitch, fcall.factory.default_yaw>>

\* C22: create_factory fails and returns no factory when an entry lacks x, y
\* or z; otherwise the prefabricated position of every name has the entry's
\* x, y, z, the entry's roll, pitch, yaw where present and 0, the configured
\* default, where missing.
C22_FactoryFromConfiguration ==
  fcall.op = "create_factory" /\ fcall.data.kind = "dict" =>
    LET entries == fcall.data.entries
    IN IF \E n \in DOMAIN entries : \E i \in 1..3 : entries[n][i] = <<>>
         THEN fcall.err = "ValueError" /\ fcall.factory = NoFactory
         ELSE /\ fcall.err = "none"
              /\ fcall.factory.kind = "VirtualObjectPositionFactory"
              /\ DOMAIN fcall.factory.prefabricated_positions = DOMAIN entries
              /\ \A n \in DOMAIN entries : \A i \in 1..6 :
                   fcall.factory.prefabricated_positions[n][i] =
                     IF entries[n][i] = <<>> THEN 0 ELSE entries[n][i][1]
              /\ fcall.factory.default_roll = 0
              /\ fcall.factory.default_pitch = 0
              /\ fcall.factory.default_yaw = 0

(***************************************************************************)
(* The setup manager and its factory                                       *)
(***************************************************************************)
\* C23: adding a setup under a name that is registered raises an error and
\* leaves the manager's setups as they were, so get(name) returns the setup
\* that was added first under the name; get of a name that is not
\* registered raises the not-found ValueError.
C23_AddKeepsFirstSetup ==
  /\ (scall.op = "add" /\ scall.name \in DOMAIN scall.pre) =>
        (scall.err = "AttributeError" /\ setup_manager.setups = scall.pre)
  /\ scall.op = "get" =>
        IF scall.name \in DOMAIN scall.first
          THEN scall.err = "none" /\ scall.ret = scall.first[scall.name]
          ELSE scall.err = "ValueError"

\* obj is the object the entry under key describes: named by the key, with
\* the entry's own descriptor, color and size, or the prototype's.
Describes(obj, key, entry) ==
  /\ obj.name = key
  /\ IF entry.kind = "dict"
       THEN /\ obj.descriptor = entry.descriptor[1]
            /\ obj.color = TestColors[entry.color[1].chars]
            /\ obj.size = size_mapping[entry.size[1].chars]
            /\ obj.position = prefabricated_positions[entry.position[1]]
       ELSE /\ obj.descriptor = prototype_mapping[entry.str].descriptor
            /\ obj.color = prototype_mapping[entry.str].color
            /\ obj.size = prototype_mapping[entry.str].size

\* C24: create_setup_manager returns a manager that holds, for every setup
\* of the data, one object per object entry, named by the entry's key and
\* described by the entry (inline dictionary) or by the prototype it names
\* (string); an entry that is neither raises TypeError.
C24_SetupManagerFromConfiguration ==
  scall.op = "create_setup_manager" =>
    LET data == scall.data
        Entries == UNION {{data[s][o] : o \in DOMAIN data[s]} : s \in DOMAIN data}
        Known == \A e \in Entries :
                   e.kind = "str" => e.str \in DOMAIN prototype_mapping
    IN IF ~Known THEN TRUE
       ELSE IF \E e \in Entries : e.kind \notin {"dict", "str"}
         THEN scall.err = "TypeError"
         ELSE /\ scall.err = "none"
              /\ DOMAIN scall.manager.setups = DOMAIN data
              /\ \A s \in DOMAIN data :
                   LET objs == scall.manager.setups[s].objects
                   IN /\ Len(objs) = Cardinality(DOMAIN data[s])
                      /\ \A o \in DOMAIN data[s] :
                           \E i \in 1..Len(objs) :
                             Describes(objs[i], o, data[s][o])

(***************************************************************************)
(* The facade's table of tracked objects                                   *)
(***************************************************************************)
\* C25: get_object(name, update=False) returns the stored snapshot of a
\* tracked name (KeyError for another name) and get_objects(update=False)
\* returns the stored snapshots of all tracked names; neither calls a
\* backend operation and neither changes the table.
C25_ReadsWithoutUpdate ==
  /\ (last.op = "get_object" /\ ~last.update) =>
        /\ calls = <<>>
        /\ virtual_objects = last.pre
        /\ IF last.target.str \in DOMAIN last.pre
             THEN last.err = "none" /\ last.ret = ObjT(last.pre[last.target.str])
             ELSE last.err = "KeyError"
  /\ (last.op = "get_objects" /\ ~last.update) =>
        /\ calls = <<>>
        /\ virtual_objects = last.pre
        /\ last.err = "none"
        /\ Len(last.retList) = Cardinality(DOMAIN last.pre)
        /\ {last.retList[i] : i \in 1..Len(last.retList)}
             = {last.pre[n] : n \in DOMAIN last.pre}

\* The stored snapshot of a tracked object was read without an update.
C25_Witness ==
  /\ last.op = "get_object"
  /\ ~last.update
  /\ last.err = "none"
  /\ last.target.str \in DOMAIN virtual_objects
  /\ last.ret = ObjT(virtual_objects[last.target.str])

\* C26: the set of tracked names changes only by add_object, which adds the
\* object's name, and by delete, which reaches the backend for a tracked
\* target and removes the target's name when it succeeds; every other facade
\* method leaves the set as it was, whether it succeeds or fails.
C26_TrackedNamesFrame ==
  /\ last.op \notin {"init", "add_object", "delete"} =>
        DOMAIN virtual_objects = DOMAIN last.pre
  /\ last.op = "add_object" =>
        DOMAIN virtual_objects
          = IF last.err = "none" THEN DOMAIN last.pre \cup {TargetName(last.target)}
                                 ELSE DOMAIN last.pre
  /\ last.op = "delete" =>
        /\ TrackedTarget => \E i \in 1..Len(calls) : calls[i].op = "delete"
        /\ DOMAIN virtual_objects
             = IF last.err = "none"
                 THEN DOMAIN last.pre \ {TargetName(last.target)}
                 ELSE DOMAIN last.pre

\* C27: every entry of the tracking table is stored under the name of the
\* object it holds.
C27_EntriesKeyedByName ==
  \A n \in DOMAIN virtual_objects : virtual_objects[n].name = n

\* Two objects are tracked under their names and a refreshing read of all
\* of them has been asked for.
C27_Witness ==
  /\ Cardinality(DOMAIN virtual_objects) = 2
  /\ \A n \in DOMAIN virtual_objects : virtual_objects[n].name = n
  /\ last.op = "get_objects"
  /\ last.update

\* C28: add_object of an object whose name is tracked raises the
\* key-already-present error and leaves the table as it was; a delete of a
\* tracked target lets the name go, so that add_object of an object with the
\* name succeeds again.
C28_AddRefusesTrackedName ==
  /\ (last.op = "add_object" /\ TargetName(last.target) \in DOMAIN last.pre) =>
        (last.err = "AttributeError" /\ virtual_objects = last.pre)
  /\ (last.op = "delete" /\ TrackedTarget) =>
        add_object(Start, ClientObject(TargetName(last.target))).err = "none"

(***************************************************************************)
(* The external object builder                                             *)
(***************************************************************************)
\* C29: load_from_config of a name that is not a registered prototype
\* raises the resolver's KeyError before any setter runs: the pending
\* descriptor, color and size and the descriptor-set flags are as they were
\* before the call.
C29_UnknownPrototypeChangesNothing ==
  (/\ blast.op \in {"load_from_config", "external_load_from_config"}
   /\ blast.name \notin DOMAIN prototype_mapping)
  => (blast.err = "KeyError" /\ builder = blast.pre)

\* An unknown prototype was refused by a builder that held pending values.
C29_Witness ==
  /\ blast.op = "external_load_from_config"
  /\ blast.name \notin DOMAIN prototype_mapping
  /\ blast.err = "KeyError"
  /\ builder.descriptor # NOT_SPECIFIED
  /\ builder.color # NOT_SPECIFIED
  /\ builder.external_descriptor_set

\* C30: ExternalObjectBuilder.create registers the object it returns in the
\* facade's table under the name given; a create that fails adds nothing to
\* the table; a create of a tracked name fails in the registration, after
\* the backend's create_object was given the object, which stays created.
C30_CreateRegisters ==
  blast.op = "external_create" =>
    /\ blast.err = "none" =>
          /\ blast.ret.name = blast.name
          /\ blast.name \notin DOMAIN last.pre
          /\ virtual_objects = Put(last.pre, blast.name, blast.ret)
    /\ blast.err # "none" => virtual_objects = last.pre
    /\ (\/ NOT_SPECIFIED \in {blast.pre.descriptor, blast.pre.color, blast.pre.size}
        \/ blast.position = StrT("nowhere")
        \/ inherited = "create_object") => blast.err # "none"
    /\ (blast.name \in DOMAIN last.pre /\ Len(created) = 1) =>
          /\ blast.err = "AttributeError"
          /\ created[1].name = blast.name
          /\ virtual_objects = last.pre

\* A create of a tracked name failed in the registration after the backend
\* had been given the new object.
C30_Witness ==
  /\ blast.op = "external_create"
  /\ blast.err = "AttributeError"
  /\ Len(created) = 1
  /\ created[1].name = blast.name
  /\ blast.name \in DOMAIN virtual_objects
====
